---- MODULE Spec2Model ----
(***************************************************************************)
(* hktkzyx_toolbox.electronics: the E-series preferred-number engine       *)
(* (ESeriesValue, cal_significand_and_exponent, _query_rounded_value_index)*)
(* as a state machine over calls of its pure functions.                    *)
(*                                                                         *)
(* Numbers are Python floats (IEEE-754 binary64).  A float is the record   *)
(* [neg, m, q] with value (-1)^neg * m * 2^q, where m is a 53-bit natural  *)
(* held as a little-endian sequence of 20-bit limbs (<<>> is zero), so     *)
(* that /10, *10, + and * 10**e round to nearest-even exactly as the       *)
(* interpreter does.  Decimal literals of the source and of the inputs are *)
(* kept as integers (n, k), meaning the literal  n e k, and parsed by Lit. *)
(***************************************************************************)
EXTENDS Integers, Sequences, FiniteSets, TLC

(***************************************************************************)
(* Bounds of the explored inputs.                                          *)
(***************************************************************************)
\* the rounding step is called with the magnitudes  n e -2,  100 <= n <= MaxMagnitude,
\* the decomposition also with the integers n
MaxMagnitude == 999
\* create() and the decomposition are called with 0 and with the literals
\* [-] n e k,  10 <= n <= MaxDigits,  k in {-MaxShift, 1}
MaxDigits == 99
MaxShift == 2
\* decade exponents -MaxExponent..MaxExponent of the direct constructor and
\* 0..MaxExponent of the products p * 10**e
MaxExponent == 3
\* the decomposition is also called with 10**k, -MaxPower <= k <= MaxPower
MaxPower == 11

\* the LED calls explored: supply and LED voltages up to MaxVolts (volts), currents up to
\* MaxMilliAmps (milliamperes) and MaxDeciAmps (tenths of an ampere), batches of up to
\* MaxBatch elements
MaxVolts == 10

MaxMilliAmps == 30

MaxDeciAmps == 30

MaxBatch == 2
\* the pension calls explored: ages from 40 - MaxAgeMargin to 70 + MaxAgeMargin, balances
\* n, n e-3, n e1 and n e3 for n up to MaxBalance and for the figures of the examples
MaxAgeMargin == 12
MaxBalance == 3

\* the resistances of the calls, in tenths of an ohm
DeciOhms == {10, 25, 50, 100, 1000, 10000, 22190}

(***************************************************************************)
(* binary64 arithmetic                                                     *)
(***************************************************************************)
Base == 2^20

RECURSIVE FromInt(_)
FromInt(n) == IF n = 0 THEN <<>> ELSE <<n % Base>> \o FromInt(n \div Base)

RECURSIVE MulSmallC(_, _, _)
MulSmallC(a, c, carry) ==
    IF a = <<>> THEN (IF carry = 0 THEN <<>> ELSE <<carry>>)
    ELSE LET t == a[1] * c + carry
         IN  <<t % Base>> \o MulSmallC(Tail(a), c, t \div Base)

\* a * c for a small factor c <= 2^10
MulSmall(a, c) == MulSmallC(a, c, 0)

\* a \div c and a % c for a small divisor c <= 2^10, most significant limb first
RECURSIVE DivSmall(_, _, _)
DivSmall(a, c, r) ==
    IF a = <<>> THEN [q |-> <<>>, r |-> r]
    ELSE LET n == Len(a)
             t == r * Base + a[n]
             rest == DivSmall(SubSeq(a, 1, n - 1), c, t % c)
         IN  [q |-> rest.q \o <<t \div c>>, r |-> rest.r]

RECURSIVE Trim(_)
Trim(a) == IF a = <<>> THEN a
           ELSE IF a[Len(a)] = 0 THEN Trim(SubSeq(a, 1, Len(a) - 1)) ELSE a

RECURSIVE AddC(_, _, _)
AddC(a, b, carry) ==
    IF a = <<>> /\ b = <<>> THEN (IF carry = 0 THEN <<>> ELSE <<carry>>)
    ELSE LET x == IF a = <<>> THEN 0 ELSE a[1]
             y == IF b = <<>> THEN 0 ELSE b[1]
             t == x + y + carry
         IN  <<t % Base>> \o AddC(IF a = <<>> THEN a ELSE Tail(a),
                                  IF b = <<>> THEN b ELSE Tail(b), t \div Base)

RECURSIVE SmallBits(_)
SmallBits(n) == IF n = 0 THEN 0 ELSE 1 + SmallBits(n \div 2)

BitLen(a) == IF a = <<>> THEN 0 ELSE 20 * (Len(a) - 1) + SmallBits(a[Len(a)])

RECURSIVE Shl(_, _)
Shl(a, s) == IF a = <<>> \/ s = 0 THEN a
             ELSE IF s >= 20 THEN <<0>> \o Shl(a, s - 20)
             ELSE IF s > 10 THEN Shl(MulSmall(a, 2^10), s - 10)
             ELSE MulSmall(a, 2^s)

\* a \div 2^s; st records that a non-zero bit was shifted out
RECURSIVE Shr(_, _, _)
Shr(a, s, st) ==
    IF s = 0 \/ a = <<>> THEN [n |-> a, st |-> st]
    ELSE IF s >= 20 THEN Shr(Tail(a), s - 20, st \/ a[1] # 0)
    ELSE LET b == IF s > 10 THEN 10 ELSE s
             d == DivSmall(a, 2^b, 0)
         IN  Shr(Trim(d.q), s - b, st \/ d.r # 0)

\* the rounded 53 bits M, renormalised if rounding up carried into a 54th bit
RoundCarry(neg, M, q) ==
    IF BitLen(M) = 54
    THEN [neg |-> neg, m |-> Trim(DivSmall(M, 2, 0).q), q |-> q + 1]
    ELSE [neg |-> neg, m |-> M, q |-> q]

\* M truncated to 53 bits, guard the first bit cut off, st the bits below it: ties to even
RoundHalf(neg, M, q, guard, st) ==
    RoundCarry(neg, IF guard /\ (st \/ M[1] % 2 = 1) THEN AddC(M, <<1>>, 0) ELSE M, q)

\* g.n holds 54 bits: 53 and the guard bit
RoundGuard(neg, g, q) ==
    RoundHalf(neg, Trim(DivSmall(g.n, 2, 0).q), q, g.n[1] % 2 = 1, g.st)

\* n has L bits
RoundBits(neg, n, q, st, L) ==
    IF L <= 53 THEN [neg |-> neg, m |-> Shl(n, 53 - L), q |-> q - (53 - L)]
    ELSE RoundGuard(neg, Shr(n, L - 54, st), q + (L - 53))

\* the float nearest to n * 2^q, ties to even (st: n is the exact value truncated)
Round(neg, n, q, st) ==
    IF n = <<>> THEN [neg |-> neg, m |-> <<>>, q |-> 0]
    ELSE RoundBits(neg, n, q, st, BitLen(n))

RECURSIVE MulPow(_, _, _)
MulPow(a, c, e) == IF e = 0 \/ a = <<>> THEN a ELSE MulPow(MulSmall(a, c), c, e - 1)

RECURSIVE DivPow10(_, _, _)
DivPow10(a, e, st) == IF e = 0 THEN [n |-> a, st |-> st]
                      ELSE LET d == DivSmall(a, 10, 0)
                           IN  DivPow10(Trim(d.q), e - 1, st \/ d.r # 0)

\* d.n * 2^q, d.st recording a remainder
RoundQuotient(neg, d, q) == Round(neg, d.n, q, d.st)

\* the float the interpreter reads from the decimal literal  n e k
Lit(n, k) ==
    IF k >= 0 THEN Round(FALSE, MulPow(FromInt(n), 10, k), 0, FALSE)
    ELSE RoundQuotient(FALSE, DivPow10(Shl(FromInt(n), 60 + 4 * (-k)), -k, FALSE),
                       -(60 + 4 * (-k)))

\* x * 10 and x / 10 in float arithmetic
Mul10(x) == Round(x.neg, MulSmall(x.m, 10), x.q, FALSE)

Div10(x) == RoundQuotient(x.neg, DivPow10(Shl(x.m, 8), 1, FALSE), x.q - 8)

\* x + y for two floats of the same sign
Add(x, y) ==
    IF x.m = <<>> THEN y
    ELSE IF y.m = <<>> THEN x
    ELSE IF x.q >= y.q
         THEN Round(x.neg, AddC(Shl(x.m, x.q - y.q), y.m, 0), y.q, FALSE)
         ELSE Round(x.neg, AddC(Shl(y.m, y.q - x.q), x.m, 0), x.q, FALSE)

Twice(x) == IF x.m = <<>> THEN x ELSE [x EXCEPT !.q = @ + 1]

Neg(x) == [x EXCEPT !.neg = ~@]

Abs(x) == [x EXCEPT !.neg = FALSE]

IsZero(x) == x.m = <<>>

\* a < b for naturals of equal limb count
RECURSIVE LimbLess(_, _)
LimbLess(a, b) ==
    IF a = <<>> THEN FALSE
    ELSE LET n == Len(a)
         IN  IF a[n] # b[n] THEN a[n] < b[n]
             ELSE LimbLess(SubSeq(a, 1, n - 1), SubSeq(b, 1, n - 1))

\* x < y for two non-negative floats
MagLess(x, y) ==
    IF IsZero(y) THEN FALSE
    ELSE IF IsZero(x) THEN TRUE
    ELSE IF x.q # y.q THEN x.q < y.q
    ELSE LimbLess(x.m, y.m)

\* x < y, x <= y
Less(x, y) ==
    IF IsZero(x) /\ IsZero(y) THEN FALSE
    ELSE IF x.neg /\ ~IsZero(x)
         THEN (IF y.neg /\ ~IsZero(y) THEN MagLess(Abs(y), Abs(x)) ELSE TRUE)
         ELSE (IF y.neg /\ ~IsZero(y) THEN FALSE ELSE MagLess(Abs(x), Abs(y)))

LessEq(x, y) == ~Less(y, x)

(***************************************************************************)
(* The preferred-number tables, as the hundredths their literals denote.   *)
(***************************************************************************)
E24_HUNDREDTHS ==
    <<
    100, 110, 120, 130, 150, 160, 180, 200, 220, 240, 270, 300,
    330, 360, 390, 430, 470, 510, 560, 620, 680, 750, 820, 910
    >>

E192_HUNDREDTHS ==
    <<
    100, 101, 102, 104, 105, 106, 107, 109, 110, 111, 113, 114,
    115, 117, 118, 120, 121, 123, 124, 126, 127, 129, 130, 132,
    133, 135, 137, 138, 140, 142, 143, 145, 147, 149, 150, 152,
    154, 156, 158, 160, 162, 164, 165, 167, 169, 172, 174, 176,
    178, 180, 182, 184, 187, 189, 191, 193, 196, 198, 200, 203,
    205, 208, 210, 213, 215, 218, 221, 223, 226, 229, 232, 234,
    237, 240, 243, 246, 249, 252, 255, 258, 261, 264, 267, 271,
    274, 277, 280, 284, 287, 291, 294, 298, 301, 305, 309, 312,
    316, 320, 324, 328, 332, 336, 340, 344, 348, 352, 357, 361,
    365, 370, 374, 379, 383, 388, 392, 397, 402, 407, 412, 417,
    422, 427, 432, 437, 442, 448, 453, 459, 464, 470, 475, 481,
    487, 493, 499, 505, 511, 517, 523, 530, 536, 542, 549, 556,
    562, 569, 576, 583, 590, 597, 604, 612, 619, 626, 634, 642,
    649, 657, 665, 673, 681, 690, 698, 706, 715, 723, 732, 741,
    750, 759, 768, 777, 787, 796, 806, 816, 825, 835, 845, 856,
    866, 876, 887, 898, 909, 920, 931, 942, 953, 965, 976, 988
    >>

PREFERRED_NUMBER_E24 == [i \in 1..Len(E24_HUNDREDTHS) |-> Lit(E24_HUNDREDTHS[i], -2)]

PREFERRED_NUMBER_E192 == [i \in 1..Len(E192_HUNDREDTHS) |-> Lit(E192_HUNDREDTHS[i], -2)]

(***************************************************************************)
(* Python values                                                           *)
(***************************************************************************)
None == "None"

\* a * b in float arithmetic: the exact product, rounded once
RECURSIVE BigMul(_, _)
BigMul(a, b) ==
    IF b = <<>> THEN <<>>
    ELSE LET d == DivSmall(b, 2^10, 0)
         IN  AddC(MulSmall(a, d.r), Shl(BigMul(a, Trim(d.q)), 10), 0)

Mul(x, y) ==
    IF IsZero(x) \/ IsZero(y) THEN [neg |-> x.neg # y.neg, m |-> <<>>, q |-> 0]
    ELSE Round(x.neg # y.neg, Trim(BigMul(x.m, y.m)), x.q + y.q, FALSE)

\* 10**e as a float factor: exact for 0 <= e <= 22, pow(10.0, e) for e < 0
Pow10(e) == Lit(1, e)

\* the float an input expression evaluates to:  [-] n e k  or  n e k * 10**pow
Signed(positive, x) == IF positive THEN x ELSE Neg(x)

Float(v) ==
    Signed(~v.neg,
           IF v.form = "literal" THEN Lit(v.n, v.k) ELSE Mul(Lit(v.n, v.k), Pow10(v.pow)))

\* list[i] with Python's negative indices; InRange is FALSE where it raises IndexError
InRange(list, i) == -Len(list) <= i /\ i < Len(list)

Item(list, i) == IF i >= 0 THEN list[i + 1] ELSE list[Len(list) + i + 1]

\* list[::step]
Stride(list, step) == [i \in 1..((Len(list) + step - 1) \div step) |-> list[(i - 1) * step + 1]]

ValueError == "ValueError"

IndexError == "IndexError"

NoError == "none"

(***************************************************************************)
(* Module functions of electronics.py                                      *)
(***************************************************************************)
valid_series_size == <<3, 6, 12, 24, 48, 96, 192>>

valid_series == <<"E3", "E6", "E12", "E24", "E48", "E96", "E192">>

\* the check were a range check
_launch_e_series_size_verify_range(series_size) ==
    valid_series_size[1] - 1 <= series_size /\ series_size <= valid_series_size[Len(valid_series_size)]

\* TRUE when the check passes, FALSE when it raises ValueError
_launch_e_series_size_verify(series_size) ==
    \E i \in 1..Len(valid_series_size) : valid_series_size[i] = series_size

_launch_e_series_verify(series) ==
    \E i \in 1..Len(valid_series) : valid_series[i] = series

series_size_mapper ==
    [E3 |-> 3, E6 |-> 6, E12 |-> 12, E24 |-> 24, E48 |-> 48, E96 |-> 96, E192 |-> 192]

_query_series_size(series) == series_size_mapper[series]

\* the base table whole, whatever the size
_query_available_preferred_numbers_whole(series_size) ==
    IF series_size <= 24 THEN PREFERRED_NUMBER_E24 ELSE PREFERRED_NUMBER_E192

_query_available_preferred_numbers(series_size) ==
    IF series_size <= 24
    THEN Stride(PREFERRED_NUMBER_E24, 24 \div series_size)
    ELSE Stride(PREFERRED_NUMBER_E192, 192 \div series_size)

Ten == Lit(10, 0)

One == Lit(1, 0)

\* the two loops, on the pair (value, exponent) the function returns at the end
RECURSIVE DivideLoop(_)
DivideLoop(l) ==
    IF ~MagLess(Abs(l.significand), Ten)
    THEN DivideLoop([significand |-> Div10(l.significand), exponent |-> l.exponent + 1])
    ELSE l

RECURSIVE MultiplyLoop(_)
MultiplyLoop(l) ==
    IF MagLess(Abs(l.significand), One)
    THEN MultiplyLoop([significand |-> Mul10(l.significand), exponent |-> l.exponent - 1])
    ELSE l

_cal_significand_and_exponent(value) ==
    IF IsZero(value) THEN [significand |-> Lit(0, 0), exponent |-> 0]
    ELSE MultiplyLoop(DivideLoop([significand |-> value, exponent |-> 0]))

\* np.vectorize(..., otypes=[float, int]): the exponent comes back as an int64 array
cal_significand_and_exponent(value) ==
    _cal_significand_and_exponent(value) @@ [dtype |-> "int64"]

\* bisect.bisect(a, x), i.e. bisect_right over a[lo:hi]
RECURSIVE bisect(_, _, _, _)
bisect(a, x, lo, hi) ==
    IF lo < hi
    THEN LET mid == (lo + hi) \div 2
         IN  IF Less(x, a[mid + 1]) THEN bisect(a, x, lo, mid) ELSE bisect(a, x, mid + 1, hi)
    ELSE lo

\* the locals after the two table reads, floor_index and ceil_index as lines 423-425
\* leave them
TableReads(value, available_values, floor_index, ceil_index) ==
    [value |-> value,
     floor_index |-> floor_index,
     ceil_index |-> ceil_index,
     floor_value |-> Item(available_values, floor_index),
     ceil_value |-> Item(available_values, ceil_index)]

\* ceil_index is what bisect returned
Indices(value, available_values, ceil_index) ==
    TableReads(value, available_values, ceil_index - 1,
               IF ceil_index >= Len(available_values) THEN ceil_index - 1 ELSE ceil_index)

Bisected(value, available_values) ==
    Indices(value, available_values, bisect(available_values, value, 0, Len(available_values)))

\* the same locals were floor and ceil applied to the signed value
RoundingLocals_signed(value, available_values) == Bisected(value, available_values)

\* the locals of _query_rounded_value_index for a non-zero value
RoundingLocals(value, available_values) ==
    Bisected(IF Less(value, Lit(0, 0)) THEN Neg(value) ELSE value, available_values)

\* 'nearest' were to return the farther of the two bracketing entries
RoundedIndex_farther(l, round) ==
    IF round = "floor" THEN l.floor_index
    ELSE IF round = "ceil" THEN l.ceil_index
    ELSE IF LessEq(Twice(l.value), Add(l.floor_value, l.ceil_value))
         THEN l.ceil_index
         ELSE l.floor_index

\* the value returned, from the locals l
RoundedIndex(l, round) ==
    IF round = "floor" THEN l.floor_index
    ELSE IF round = "ceil" THEN l.ceil_index
    ELSE IF LessEq(Twice(l.value), Add(l.floor_value, l.ceil_value))
         THEN l.floor_index
         ELSE l.ceil_index

_query_rounded_value_index(value, available_values, round) ==
    IF IsZero(value) THEN 0
    ELSE RoundedIndex(RoundingLocals(value, available_values), round)

(***************************************************************************)
(* class ESeriesValue                                                      *)
(***************************************************************************)
NoAttributes == <<>>

\* f'E{self.series_size:d}'
SeriesName(series_size) == "E" \o ToString(series_size)

\* the index _query_preferred_number reads, and the table it reads it from
PreferredTable(series_size) ==
    IF series_size <= 24 THEN PREFERRED_NUMBER_E24 ELSE PREFERRED_NUMBER_E192

\* the index were the base table read without its stride
PreferredIndex_unstrided(series_size, series_exponent) == series_exponent

PreferredIndex(series_size, series_exponent) ==
    IF series_size <= 24
    THEN (24 \div series_size) * series_exponent
    ELSE (192 \div series_size) * series_exponent

\* _query_preferred_number: self.preferred_number = table[index]
_query_preferred_number(self, table, index) ==
    IF InRange(table, index)
    THEN [exc |-> NoError, self |-> [self EXCEPT !.preferred_number = Item(table, index)]]
    ELSE [exc |-> IndexError, self |-> self]

\* __init__ with _cal_related_variables and _query_preferred_number:
\* exc is the exception that leaves the constructor, self the attributes set so far
ESeriesValue(series_exponent, series_size, exponent, dtype, positive) ==
    IF ~_launch_e_series_size_verify(series_size)
    THEN [exc |-> ValueError, self |-> NoAttributes]
    ELSE _query_preferred_number(
             [preferred_number |-> None,
              series |-> SeriesName(series_size),
              significant_figures |-> IF series_size >= 48 THEN 3 ELSE 2,
              series_exponent |-> series_exponent,
              series_size |-> series_size,
              exponent |-> exponent,
              exponent_dtype |-> dtype,
              is_positive |-> positive],
             PreferredTable(series_size),
             PreferredIndex(series_size, series_exponent))

\* the low 64 bits of a, in limbs of 20, 20, 20 and 4 bits
Low64(a) == [i \in 1..4 |-> IF i > Len(a) THEN 0 ELSE IF i = 4 THEN a[4] % 16 ELSE a[i]]

\* 2^64 - u, the magnitude of the negative int64 with the bits u
Complement64(u) == AddC([i \in 1..4 |-> IF i = 4 THEN 15 - u[4] ELSE Base - 1 - u[i]], <<1>>, 0)

\* 10**e for an int64 e >= 0 is an int64: 10^e wrapped to 64 bits in two's complement,
\* here as the float the product with a float converts it to
Int64Pow10(e) ==
    LET u == Low64(MulPow(<<1>>, 10, e))
    IN  IF u[4] >= 8 THEN Round(TRUE, Trim(Complement64(u)), 0, FALSE)
        ELSE Round(FALSE, Trim(u), 0, FALSE)

\* 10**self.exponent raises ValueError for a negative int64 exponent
to_scalar(self) ==
    IF self.exponent_dtype = "int64" /\ self.exponent < 0
    THEN [exc |-> ValueError]
    ELSE [exc |-> NoError,
          val |-> Signed(self.is_positive,
                         Mul(self.preferred_number,
                             IF self.exponent_dtype = "int64" THEN Int64Pow10(self.exponent)
                             ELSE Pow10(self.exponent)))]

\* cls(series_exponent, series_size, exponent, is_positive) of the last two lines of
\* create, d the pair the decomposition returned
create_from(d, available_preferred_numbers, series_size, round) ==
    ESeriesValue(_query_rounded_value_index(d.significand, available_preferred_numbers, round),
                 series_size, d.exponent, d.dtype, LessEq(Lit(0, 0), d.significand))

create_in(value, series_size, round) ==
    create_from(cal_significand_and_exponent(value),
                _query_available_preferred_numbers(series_size), series_size, round)

create(value, series, round) ==
    IF ~_launch_e_series_verify(series)
    THEN [exc |-> ValueError, self |-> NoAttributes]
    ELSE create_in(value, _query_series_size(series), round)


(***************************************************************************)
(* real numbers of the LED model: numpy floats are taken as the numbers    *)
(* they stand for and computed with exactly, as fractions                  *)
(*     (-1)^neg * n / (2^s * d)                                            *)
(* of naturals n and d > 0 (sequences of limbs, as above), that are not    *)
(* reduced; NaN and inf are values of their own                            *)
(***************************************************************************)
nan == [form |-> "nan"]

inf == [form |-> "inf"]

IsNaN(x) == x.form = "nan"

IsInf(x) == x.form = "inf"

IsFinite(x) == x.form = "number"

Number(neg, n, s, d) == [form |-> "number", neg |-> neg /\ n # <<>>, n |-> n, s |-> s, d |-> d]

\* an integer of the model as a real number
Real(i) == Number(i < 0, FromInt(IF i < 0 THEN -i ELSE i), 0, <<1>>)

\* a < b for two naturals
NatLess(a, b) == IF Len(a) # Len(b) THEN Len(a) < Len(b) ELSE LimbLess(a, b)

\* a - b for naturals a >= b
RECURSIVE SubB(_, _, _)
SubB(a, b, borrow) ==
    IF a = <<>> THEN <<>>
    ELSE LET y == IF b = <<>> THEN 0 ELSE b[1]
             t == a[1] - y - borrow
         IN  <<(t + Base) % Base>> \o SubB(Tail(a), IF b = <<>> THEN b ELSE Tail(b),
                                          IF t < 0 THEN 1 ELSE 0)

NatSub(a, b) == Trim(SubB(a, b, 0))

\* a * c for one limb c, and a * b
MulLimb(a, c) ==
    AddC(MulSmall(a, c % 1024), MulSmall(MulSmall(a, c \div 1024), 1024), 0)

RECURSIVE NatMulBy(_, _)
NatMulBy(a, b) ==
    IF b = <<>> THEN <<>>
    ELSE AddC(MulLimb(a, b[1]), <<0>> \o NatMulBy(a, Tail(b)), 0)

NatMul(a, b) ==
    IF a = <<>> \/ b = <<>> THEN <<>>
    ELSE IF b = <<1>> THEN a
    ELSE IF a = <<1>> THEN b
    ELSE IF Len(a) < Len(b) THEN Trim(NatMulBy(b, a))
    ELSE Trim(NatMulBy(a, b))

\* the sum of two signed naturals
SignedSum(xneg, xn, yneg, yn, s, d) ==
    IF xneg = yneg THEN Number(xneg, AddC(xn, yn, 0), s, d)
    ELSE IF NatLess(xn, yn) THEN Number(yneg, NatSub(yn, xn), s, d)
    ELSE Number(xneg, NatSub(xn, yn), s, d)

\* x + y over the denominator 2^s * d, the numerators being brought to it first
AlignedSum(x, y, xn, yn, d) ==
    IF x.s >= y.s THEN SignedSum(x.neg, xn, y.neg, Shl(yn, x.s - y.s), x.s, d)
    ELSE SignedSum(x.neg, Shl(xn, y.s - x.s), y.neg, yn, y.s, d)

Plus(x, y) ==
    IF x.d = y.d THEN AlignedSum(x, y, x.n, y.n, x.d)
    ELSE AlignedSum(x, y, NatMul(x.n, y.d), NatMul(y.n, x.d), NatMul(x.d, y.d))

Opposite(x) == Number(~x.neg, x.n, x.s, x.d)

Difference(x, y) == Plus(x, Opposite(y))

Times(x, y) ==
    Number(x.neg # y.neg, NatMul(x.n, y.n), x.s + y.s, NatMul(x.d, y.d))

\* x * 0.5
\* no halving
Halved_kept(x) == x

Halved(x) == Number(x.neg, x.n, x.s + 1, x.d)

\* x / y for y # 0:  n_x * d_y * 2^s_y / (n_y * d_x * 2^s_x)
Quotient(x, y) ==
    Number(x.neg # y.neg, NatMul(Shl(x.n, y.s), y.d), x.s, NatMul(y.n, x.d))

Sign(x) == IF x.n = <<>> THEN 0 ELSE IF x.neg THEN -1 ELSE 1

\* the comparisons of finite numbers
Below(x, y) == Sign(Difference(x, y)) < 0

Same(x, y) == Sign(Difference(x, y)) = 0

\* the comparisons of numpy: every comparison with NaN is False, inf is above every number
lt(x, y) ==
    IF IsNaN(x) \/ IsNaN(y) THEN FALSE
    ELSE IF IsInf(x) THEN FALSE
    ELSE IF IsInf(y) THEN TRUE
    ELSE Below(x, y)

gt(x, y) == lt(y, x)

le(x, y) ==
    IF IsNaN(x) \/ IsNaN(y) THEN FALSE
    ELSE IF IsInf(y) THEN TRUE
    ELSE IF IsInf(x) THEN FALSE
    ELSE ~Below(y, x)

ge(x, y) == le(y, x)

eq(x, y) ==
    IF IsNaN(x) \/ IsNaN(y) THEN FALSE
    ELSE IF IsInf(x) \/ IsInf(y) THEN IsInf(x) /\ IsInf(y)
    ELSE Same(x, y)

(***************************************************************************)
(* interpolate.CubicSpline                                                 *)
(* currents are counted in microamperes and voltages in microvolts, so     *)
(* that the samples and the inputs are integers; a resistance is their     *)
(* quotient, in ohms                                                       *)
(***************************************************************************)
\* the natural written in decimal, in groups of six digits
RECURSIVE DecFrom(_, _)
DecFrom(acc, digits) ==
    IF digits = <<>> THEN acc
    ELSE DecFrom(Trim(AddC(MulSmall(MulSmall(acc, 1000), 1000), FromInt(digits[1]), 0)),
                 Tail(digits))

Dec(digits) == DecFrom(<<>>, digits)

Reals(ints) == [k \in 1..Len(ints) |-> Real(ints[k])]

\* the cubic spline of TYPICAL_LED: per interval the coefficients of 1, t, t^2, t^3
\* (t the current above the interval's first sample, in microamperes, the value in
\* microvolts), as <<negative, digits>> over one common denominator; the digits are
\* written in groups of six
TYPICAL_LED_SPLINE_DENOMINATOR == Dec(<<47042, 120579, 19013, 338769, 309545, 998976>>)

TYPICAL_LED_SPLINE_NUMERATORS ==
    <<
      <<<<FALSE, <<129478, 732681, 691932, 313628, 647594, 407581, 542400>>>>,
        <<FALSE, <<1, 347518, 511902, 86007, 812141, 601829, 941920>>>>,
        <<TRUE, <<23, 68363, 669301, 963233, 560774, 797316>>>>,
        <<FALSE, <<897, 492715, 11268, 150617, 427823>>>>>>,
      <<<<FALSE, <<135481, 307267, 574758, 415655, 611492, 477050, 880000>>>>,
        <<FALSE, <<1, 188667, 118281, 327545, 147746, 536683, 890512>>>>,
        <<TRUE, <<10, 219857, 961200, 648389, 321678, 83248>>>>,
        <<FALSE, <<897, 492715, 11268, 150617, 427823>>>>>>,
      <<<<FALSE, <<141267, 488098, 794097, 56324, 236566, 634924, 928000>>>>,
        <<FALSE, <<1, 153703, 59225, 683816, 445799, 355562, 948000>>>>,
        <<FALSE, <<3, 210223, 26227, 968216, 517511, 860124>>>>,
        <<TRUE, <<389, 685723, 732905, 151915, 656323>>>>>>,
      <<<<FALSE, <<147053, 668930, 13435, 696992, 861640, 792798, 976000>>>>,
        <<FALSE, <<1, 156641, 933371, 677334, 219767, 838367, 293488>>>>,
        <<TRUE, <<2, 621034, 143711, 224476, 748369, 357248>>>>,
        <<FALSE, <<670, 762932, 419146, 904541, 617552>>>>>>,
      <<<<FALSE, <<152839, 849761, 232774, 337661, 486714, 950673, 24000>>>>,
        <<FALSE, <<1, 180545, 701286, 900868, 344010, 290552, 920800>>>>,
        <<FALSE, <<7, 414250, 88211, 632362, 98770, 838224>>>>,
        <<FALSE, <<670, 762932, 419146, 904541, 617552>>>>>>>>

\* the cubic spline of TYPICAL_LED_RED, written the same way
TYPICAL_LED_RED_SPLINE_DENOMINATOR == Dec(<<1, 125000, 0>>)

TYPICAL_LED_RED_SPLINE_NUMERATORS ==
    <<
      <<<<FALSE, <<1, 995300, 0, 0>>>>,
        <<FALSE, <<11, 715025, 0>>>>,
        <<FALSE, <<226, 230000>>>>,
        <<TRUE, <<11287>>>>>>,
      <<<<FALSE, <<2, 58120, 0, 0>>>>,
        <<FALSE, <<13, 130800, 0>>>>,
        <<FALSE, <<56, 925000>>>>,
        <<TRUE, <<11287>>>>>>,
      <<<<FALSE, <<2, 123786, 250000, 0>>>>,
        <<FALSE, <<12, 853525, 0>>>>,
        <<TRUE, <<112, 380000>>>>,
        <<FALSE, <<10895>>>>>>,
      <<<<FALSE, <<2, 186606, 250000, 0>>>>,
        <<FALSE, <<12, 546850, 0>>>>,
        <<FALSE, <<51, 45000>>>>,
        <<TRUE, <<4933>>>>>>,
      <<<<FALSE, <<2, 250000, 0, 0>>>>,
        <<FALSE, <<12, 687325, 0>>>>,
        <<TRUE, <<22, 950000>>>>,
        <<TRUE, <<4933>>>>>>>>

Coefficients(numerators, denominator) ==
    [k \in 1..Len(numerators) |->
        [j \in 1..4 |-> Number(numerators[k][j][1], Dec(numerators[k][j][2]), 0, denominator)]]

RECURSIVE Gcd(_, _)
Gcd(a, b) == IF b = 0 THEN a ELSE Gcd(b, a % b)

\* p / q for integers p and q > 0, reduced
Ratio(p, q) ==
    Number(p < 0, FromInt((IF p < 0 THEN -p ELSE p) \div Gcd(IF p < 0 THEN -p ELSE p, q)), 0,
           FromInt(q \div Gcd(IF p < 0 THEN -p ELSE p, q)))

\* the straight line from the first to the last sample, as a piecewise cubic
Line(x, y) ==
    [x |-> Reals(x),
     c |-> [k \in 1..Len(x) - 1 |->
               <<Real(y[k]), Ratio(y[Len(y)] - y[1], x[Len(x)] - x[1]), Real(0), Real(0)>>]]

TYPICAL_LED_SPLINE ==
    Coefficients(TYPICAL_LED_SPLINE_NUMERATORS, TYPICAL_LED_SPLINE_DENOMINATOR)

TYPICAL_LED_RED_SPLINE ==
    Coefficients(TYPICAL_LED_RED_SPLINE_NUMERATORS, TYPICAL_LED_RED_SPLINE_DENOMINATOR)

\* the piecewise cubics the model has for the samples x, y
SplineCandidates(x, y) ==
    {Line(x, y),
     [x |-> Reals(x), c |-> TYPICAL_LED_SPLINE],
     [x |-> Reals(x), c |-> TYPICAL_LED_RED_SPLINE]}

\* a + b t + c t^2 + d t^3 for the coefficients <<a, b, c, d>>
Cubic(row, t) == Plus(row[1], Times(t, Plus(row[2], Times(t, Plus(row[3], Times(t, row[4]))))))

\* its first derivative, and half its second
Slope(row, t) ==
    Plus(row[2], Times(t, Plus(Times(Real(2), row[3]), Times(Real(3), Times(t, row[4])))))

Bend(row, t) == Plus(row[3], Times(Real(3), Times(t, row[4])))

\* what CubicSpline(x, y) constructs (bc_type 'not-a-knot', the default): the piecewise
\* cubic through the samples whose first and second derivatives are continuous and
\* whose third derivative is continuous at the second and the last but one sample; a
\* straight line for two samples, a parabola for three
IsCubicSpline(s, x, y) ==
    /\ Len(s.c) = Len(x) - 1
    /\ \A k \in 1..Len(x) - 1 :
        /\ Same(s.c[k][1], Real(y[k]))
        /\ Same(Cubic(s.c[k], Real(x[k + 1] - x[k])), Real(y[k + 1]))
    /\ \A k \in 1..Len(x) - 2 :
        /\ Same(Slope(s.c[k], Real(x[k + 1] - x[k])), s.c[k + 1][2])
        /\ Same(Bend(s.c[k], Real(x[k + 1] - x[k])), s.c[k + 1][3])
    /\ Len(x) = 2 => (Sign(s.c[1][3]) = 0 /\ Sign(s.c[1][4]) = 0)
    /\ Len(x) = 3 => Sign(s.c[1][4]) = 0
    /\ Len(x) > 2 =>
        /\ Same(s.c[1][4], s.c[2][4])
        /\ Same(s.c[Len(x) - 2][4], s.c[Len(x) - 1][4])

CubicSpline(x, y) == CHOOSE s \in SplineCandidates(x, y) : IsCubicSpline(s, x, y)

\* the interval of x: the last k with x[k] <= value, the last interval for the last sample
RECURSIVE SplineInterval(_, _, _)
SplineInterval(value, x, k) ==
    IF k = 1 \/ ~Below(value, x[k]) THEN k ELSE SplineInterval(value, x, k - 1)

\* the spline were to extrapolate: the value of the first or last cubic outside
SplineValue_extrapolate(s, value) ==
    Cubic(s.c[SplineInterval(value, s.x, Len(s.x) - 1)],
          Difference(value, s.x[SplineInterval(value, s.x, Len(s.x) - 1)]))

\* self._cal_voltage(value), extrapolate=False: NaN outside [x[0], x[-1]]
SplineValue(s, value) ==
    IF IsNaN(value) \/ IsInf(value) THEN nan
    ELSE IF Below(value, s.x[1]) \/ Below(s.x[Len(s.x)], value) THEN nan
    ELSE Cubic(s.c[SplineInterval(value, s.x, Len(s.x) - 1)],
               Difference(value, s.x[SplineInterval(value, s.x, Len(s.x) - 1)]))

(***************************************************************************)
(* class LED                                                               *)
(***************************************************************************)
RECURSIVE amin(_)
amin(a) == IF Len(a) = 1 THEN a[1]
           ELSE IF a[1] < amin(Tail(a)) THEN a[1] ELSE amin(Tail(a))

RECURSIVE amax(_)
amax(a) == IF Len(a) = 1 THEN a[1]
           ELSE IF a[1] > amax(Tail(a)) THEN a[1] ELSE amax(Tail(a))

\* LED.__init__: the attributes of the object
LED(name, voltages, currents, id) ==
    [_name |-> name,
     _d |-> id,
     _voltage_limit |-> <<Real(amin(voltages)), Real(amax(voltages))>>,
     _current_limit |-> <<Real(amin(currents)), Real(amax(currents))>>,
     _cal_voltage |-> CubicSpline(currents, voltages)]

\* the samples of the two presets and of the two LEDs of the tests
TYPICAL_LED ==
    [name |-> "typical LED",
     voltages |-> <<2752400, 2880000, 3003000, 3126000, 3249000, 3376600>>,
     currents |-> <<0, 4772, 9760, 14748, 19735, 24605>>]

TYPICAL_LED_RED ==
    [name |-> "typical LED red",
     voltages |-> <<1773600, 1829440, 1887810, 1943650, 2000000, 2055330>>,
     currents |-> <<0, 5000, 10000, 15000, 20000, 25000>>]

led ==
    [name |-> "test",
     voltages |-> <<0, 1000000, 2000000, 5000000>>,
     currents |-> <<1000000, 1200000, 1400000, 2000000>>]

led_infinite_upper_bound ==
    [name |-> "test", voltages |-> <<0, 5000000>>, currents |-> <<0, 1000000>>]

\* a call that returns val; the results of the calls made for the elements of a batch,
\* that the first exception raised ends; np.vectorize(pyfunc)(batch), that rejects an
\* empty batch when otypes is not given
Returns(val) == [exc |-> NoError, val |-> val]

Raises(exc) == [exc |-> exc]

RECURSIVE FirstRaised(_)
FirstRaised(results) ==
    IF results = <<>> THEN NoError
    ELSE IF results[1].exc # NoError THEN results[1].exc
    ELSE FirstRaised(Tail(results))

Batch(results) ==
    IF FirstRaised(results) # NoError THEN Raises(FirstRaised(results))
    ELSE Returns([k \in 1..Len(results) |-> results[k].val])

vectorize(results) == IF results = <<>> THEN Raises(ValueError) ELSE Batch(results)

\* the least voltage for every current
cal_voltage_at_least(obj, current) == [k \in 1..Len(current) |-> obj._voltage_limit[1]]

cal_voltage(obj, current) ==
    [k \in 1..Len(current) |-> SplineValue(obj._cal_voltage, current[k])]

\* the closed interval in place of the open one
is_voltage_valid_closed(obj, voltage) ==
    [k \in 1..Len(voltage) |->
        le(obj._voltage_limit[1], voltage[k]) /\ le(voltage[k], obj._voltage_limit[2])]

is_voltage_valid(obj, voltage) ==
    [k \in 1..Len(voltage) |->
        lt(obj._voltage_limit[1], voltage[k]) /\ lt(voltage[k], obj._voltage_limit[2])]

is_current_valid(obj, current) ==
    [k \in 1..Len(current) |->
        lt(obj._current_limit[1], current[k]) /\ lt(current[k], obj._current_limit[2])]

_eq_solve_current(obj, current, voltage) ==
    Difference(SplineValue(obj._cal_voltage, current), voltage)

\* the equation of cal_work_current, (power_voltage - cal_voltage(x)) / resistance - x,
\* for a resistance above 0
_eq_solve_work_current(obj, current, power_voltage, resistance) ==
    Difference(Quotient(Difference(power_voltage, SplineValue(obj._cal_voltage, current)),
                        resistance),
               current)

\* f(x, *args) for the function f that optimize.bisect is given, the object of the
\* method being the first of args
Call(f, x, args) ==
    IF f = "_eq_solve_current" THEN _eq_solve_current(args[1], x, args[2])
    ELSE _eq_solve_work_current(args[1], x, args[2], args[3])

(***************************************************************************)
(* optimize.bisect                                                         *)
(***************************************************************************)
RuntimeError == "RuntimeError"

\* the defaults of optimize.bisect: xtol = 2e-12 (amperes, here in microamperes),
\* rtol = 4 * np.finfo(float).eps = 2^-50, maxiter = 100
\* an absolute tolerance of 1 microampere
xtol_coarse == Real(1)

xtol == Number(FALSE, <<2>>, 0, Dec(<<1, 0>>))

rtol == Number(FALSE, <<1>>, 50, <<1>>)

maxiter == 100

Magnitude(x) == Number(FALSE, x.n, x.s, x.d)

\* one iteration: dm *= .5; xm = xa + dm; fm = f(xm); xm is returned when fm == 0 or
\* the step is below the tolerance, and the search goes on from xm or from xa otherwise
RECURSIVE BisectLoop(_, _, _, _, _, _)
BisectLoop(f, args, xa, dm, fa, i) ==
    IF i >= maxiter THEN [exc |-> RuntimeError]
    ELSE LET xm == Plus(xa, Halved(dm))
             fm == Call(f, xm, args)
         IN  IF Sign(fm) = 0
                \/ Below(Magnitude(Halved(dm)), Plus(xtol, Times(rtol, Magnitude(xm))))
             THEN [exc |-> NoError, val |-> xm, iterations |-> i + 1]
             ELSE BisectLoop(f, args, IF Sign(fm) * Sign(fa) >= 0 THEN xm ELSE xa,
                             Halved(dm), fa, i + 1)

BisectEnds(f, args, xa, xb, fa, fb) ==
    IF Sign(fa) = 0 THEN [exc |-> NoError, val |-> xa, iterations |-> 0]
    ELSE IF Sign(fb) = 0 THEN [exc |-> NoError, val |-> xb, iterations |-> 0]
    ELSE IF Sign(fa) = Sign(fb) THEN [exc |-> ValueError]
    ELSE BisectLoop(f, args, xa, Difference(xb, xa), fa, 0)

optimize_bisect(f, a, b, args) ==
    BisectEnds(f, args, a, b, Call(f, a, args), Call(f, b, args))


\* the greatest current for every valid voltage, with no search
_cal_current_most(obj, voltage) ==
    IF ~is_voltage_valid(obj, <<voltage>>)[1] THEN Returns(nan)
    ELSE Returns(obj._current_limit[2])

_cal_current(obj, voltage) ==
    IF ~is_voltage_valid(obj, <<voltage>>)[1] THEN Returns(nan)
    ELSE optimize_bisect("_eq_solve_current", obj._current_limit[1], obj._current_limit[2],
                         <<obj, voltage>>)

cal_current(obj, voltage) ==
    vectorize([k \in 1..Len(voltage) |-> _cal_current(obj, voltage[k])])

\* a supply at the least voltage taken as enough
is_power_voltage_enough_at_least(obj, power_voltage) ==
    [k \in 1..Len(power_voltage) |-> ge(power_voltage[k], obj._voltage_limit[1])]

is_power_voltage_enough(obj, power_voltage) ==
    [k \in 1..Len(power_voltage) |-> gt(power_voltage[k], obj._voltage_limit[1])]

\* np.all
all(a) == \A k \in 1..Len(a) : a[k]

\* no supply voltage refused
validate_power_voltage_unchecked(obj, power_voltage) == Returns(None)

\* a supply at the least voltage let through: only voltage < v_min refused
validate_power_voltage_below(obj, power_voltage) ==
    IF \E k \in 1..Len(power_voltage) : lt(power_voltage[k], obj._voltage_limit[1])
    THEN Raises(ValueError)
    ELSE Returns(None)

validate_power_voltage(obj, power_voltage) ==
    IF ~all(is_power_voltage_enough(obj, power_voltage)) THEN Raises(ValueError)
    ELSE Returns(None)

(***************************************************************************)
(* The four methods that the tests and the command line call and that the  *)
(* class does not define: what the specification says of them              *)
(***************************************************************************)
\* max(0, (V - v_max) / i_max)
LeastResistance(obj, V) ==
    IF Sign(Difference(V, obj._voltage_limit[2])) < 0 THEN Real(0)
    ELSE Quotient(Difference(V, obj._voltage_limit[2]), obj._current_limit[2])

\* (V - v_min) / i_min, positive infinity for i_min == 0
MostResistance(obj, V) ==
    IF Sign(obj._current_limit[1]) = 0 THEN inf
    ELSE Quotient(Difference(V, obj._voltage_limit[1]), obj._current_limit[1])

cal_divider_resistance_range_if_power_supplied(obj, power_voltage) ==
    IF validate_power_voltage(obj, power_voltage).exc # NoError THEN Raises(ValueError)
    ELSE Returns(<<[k \in 1..Len(power_voltage) |-> LeastResistance(obj, power_voltage[k])],
                   [k \in 1..Len(power_voltage) |-> MostResistance(obj, power_voltage[k])]>>)

\* i_max for V >= v_max, cal_current(V) below
MostCurrent(obj, V) ==
    IF ge(V, obj._voltage_limit[2]) THEN Returns(obj._current_limit[2])
    ELSE _cal_current(obj, V)

WorkCurrentRange(obj, power_voltage, most) ==
    IF Batch(most).exc # NoError THEN Batch(most)
    ELSE Returns(<<[k \in 1..Len(power_voltage) |-> obj._current_limit[1]],
                   [k \in 1..Len(power_voltage) |-> most[k].val]>>)

cal_work_current_range_if_power_supplied(obj, power_voltage) ==
    IF validate_power_voltage(obj, power_voltage).exc # NoError THEN Raises(ValueError)
    ELSE WorkCurrentRange(obj, power_voltage,
                          [k \in 1..Len(power_voltage) |-> MostCurrent(obj, power_voltage[k])])

\* the current is not a working current of the range (lo, hi): outside it, or not above 0
OutOfWorkCurrentRange(current, lo, hi) ==
    lt(current, lo) \/ gt(current, hi) \/ le(current, Real(0))

\* the outcome of the method, with the working-current range it computed
DividerResistance(obj, power_voltage, current, range) ==
    (IF range.exc # NoError THEN Raises(range.exc)
     ELSE IF \E k \in 1..Len(current) :
                 OutOfWorkCurrentRange(current[k], range.val[1][1], range.val[2][1])
     THEN Raises(ValueError)
     ELSE Returns([k \in 1..Len(current) |->
                      Quotient(Difference(power_voltage, cal_voltage(obj, <<current[k]>>)[1]),
                               current[k])]))
    @@ [work_current_range |-> range]

cal_divider_resistance(obj, power_voltage, current) ==
    DividerResistance(obj, power_voltage, current,
                      cal_work_current_range_if_power_supplied(obj, <<power_voltage>>))

\* the outcome of the method, with the divider-resistance range it computed
WorkCurrent(obj, power_voltage, resistance, range) ==
    (IF range.exc # NoError THEN Raises(range.exc)
     ELSE IF \E k \in 1..Len(resistance) :
                 lt(resistance[k], range.val[1][1]) \/ gt(resistance[k], range.val[2][1])
     THEN Raises(ValueError)
     ELSE Batch([k \in 1..Len(resistance) |->
                        optimize_bisect("_eq_solve_work_current", obj._current_limit[1],
                                        obj._current_limit[2],
                                        <<obj, power_voltage, resistance[k]>>)]))
    @@ [divider_resistance_range |-> range]

cal_work_current(obj, power_voltage, resistance) ==
    WorkCurrent(obj, power_voltage, resistance,
                cal_divider_resistance_range_if_power_supplied(obj, <<power_voltage>>))
(***************************************************************************)
(* The command led-divider-resistance of scripts/electronics.py            *)
(***************************************************************************)
\* click.FloatRange(min=0, clamp=True)
FloatRange(value) == IF value < 0 THEN 0 ELSE value

\* the method of the class that is called and not defined: the least voltage, v_min
query_least_power_voltage(obj) == obj._voltage_limit[1]

\* the greatest k of lo..hi - 1 with k <= x, for lo <= x < hi
RECURSIVE FloorBetween(_, _, _)
FloorBetween(x, lo, hi) ==
    IF hi - lo <= 1 THEN lo
    ELSE IF le(Real((lo + hi) \div 2), x) THEN FloorBetween(x, (lo + hi) \div 2, hi)
    ELSE FloorBetween(x, lo, (lo + hi) \div 2)

\* f'{x:.0f}' for 0 <= x < 2^20: the nearest integer, the even one of two
FixedPoint0Round(x, floor, half) ==
    IF half < 0 THEN floor
    ELSE IF half > 0 THEN floor + 1
    ELSE floor + (floor % 2)

FixedPoint0Floor(x, floor) ==
    FixedPoint0Round(x, floor,
                     Sign(Difference(Times(Real(2), Difference(x, Real(floor))), Real(1))))

FixedPoint0(x) == FixedPoint0Floor(x, FloorBetween(x, 0, 1048576))

\* the lines click.echo writes
LeastVoltageLine(obj) == [line |-> "least voltage", V |-> query_least_power_voltage(obj)]

CurrentRangeLines == <<[line |-> "current out of range"], [line |-> "see led-work-current-range"]>>

ResistanceLine(resistance) == [line |-> "resistance", ohms |-> FixedPoint0(resistance)]

\* the frame of the command after its options are read and the LED is chosen (line
\* 101): voltage in microvolts, current as given, in units of 0.001 mA
Invoked(voltage, current, kind) ==
    [pc |-> "is_led_power_voltage_enough",
     led |-> IF kind = "r"
             THEN LED(TYPICAL_LED_RED.name, TYPICAL_LED_RED.voltages, TYPICAL_LED_RED.currents,
                      None)
             ELSE LED(TYPICAL_LED.name, TYPICAL_LED.voltages, TYPICAL_LED.currents, None),
     voltage |-> Real(FloatRange(voltage)),
     current |-> Real(FloatRange(current)),
     checks |-> <<>>,
     output |-> <<>>]

\* is_led_power_voltage_enough and the return of line 103
is_led_power_voltage_enough(frame) ==
    IF all(is_power_voltage_enough(frame.led, <<frame.voltage>>))
    THEN [frame EXCEPT !.pc = "is_led_work_current_in_range",
                       !.checks = Append(@, "power voltage")]
    ELSE [frame EXCEPT !.pc = "return",
                       !.checks = Append(@, "power voltage"),
                       !.output = Append(@, LeastVoltageLine(frame.led))]

\* is_led_work_current_in_range on the range the LED computed, and the return of line
\* 106; current_in_amps = current * 1e-3 is the current in microamperes
WorkCurrentChecked(frame, range) ==
    IF range.exc # NoError
    THEN [frame EXCEPT !.pc = "raise", !.checks = Append(@, "work current")]
    ELSE IF ge(frame.current, range.val[1][1]) /\ le(frame.current, range.val[2][1])
    THEN [frame EXCEPT !.pc = "cal_divider_resistance", !.checks = Append(@, "work current")]
    ELSE [frame EXCEPT !.pc = "return",
                       !.checks = Append(@, "work current"),
                       !.output = @ \o CurrentRangeLines]

is_led_work_current_in_range(frame) ==
    WorkCurrentChecked(frame,
                       cal_work_current_range_if_power_supplied(frame.led, <<frame.voltage>>))

\* lines 107 and 108
DividerResistancePrinted(frame, resistance) ==
    IF resistance.exc # NoError THEN [frame EXCEPT !.pc = "raise"]
    ELSE [frame EXCEPT !.pc = "return",
                       !.output = Append(@, ResistanceLine(resistance.val[1]))]

led_divider_resistance_end(frame) ==
    DividerResistancePrinted(frame,
                             cal_divider_resistance(frame.led, frame.voltage, <<frame.current>>))

\* what the runner reports when the command is left
Exit(frame) ==
    IF frame.pc = "return" THEN [exc |-> NoError, exit_code |-> 0]
    ELSE IF frame.pc = "raise" THEN [exc |-> ValueError, exit_code |-> 1]
    ELSE [exc |-> "pending"]

(***************************************************************************)
(* finance/social_pension.py and the command social-personal-pension       *)
(***************************************************************************)
\* the dictionary of lines 5-37, ages 40 to 70
COLLECTION_MONTHS ==
    [age \in 40..70 |->
        <<233, 230, 226, 223, 220, 216, 212, 208, 204, 199,
          195, 190, 185, 180, 175, 170, 164, 158, 152, 145,
          139, 132, 125, 117, 109, 101, 93, 84, 75, 65, 56>>[age - 39]]

\* the same turn with the last branch taken from 70 on
AppendedMonths_early(age) ==
    IF age < 40 THEN COLLECTION_MONTHS[40]
    ELSE IF age >= 70 THEN COLLECTION_MONTHS[69]
    ELSE COLLECTION_MONTHS[age]

\* one turn of the loop of get_collection_months: what is appended for age
AppendedMonths(age) ==
    IF age < 40 THEN COLLECTION_MONTHS[40]
    ELSE IF age > 70 THEN COLLECTION_MONTHS[70]
    ELSE COLLECTION_MONTHS[age]

\* get_collection_months, retire_age after np.atleast_1d: the only element of months,
\* or the array of them
get_collection_months(retire_age) ==
    LET months == [k \in 1..Len(retire_age) |-> AppendedMonths(retire_age[k])]
    IN  IF Len(months) = 1 THEN months[1] ELSE months

\* x / c in float arithmetic for an integer 0 < c < 2^10: the exact quotient, rounded once
TrueDivide(x, c) ==
    LET d == DivSmall(Shl(x.m, 12), c, 0)
    IN  RoundQuotient(x.neg, [n |-> Trim(d.q), st |-> d.r # 0], x.q - 12)

\* get_personal_pension: np.asarray(balance) / get_collection_months(retire_age), a
\* float for one age and an array for an array of ages
get_personal_pension(balance, retire_age) ==
    LET months == get_collection_months(retire_age)
    IN  IF Len(retire_age) = 1 THEN TrueDivide(balance, months)
        ELSE [k \in 1..Len(retire_age) |-> TrueDivide(balance, months[k])]

\* cal_personal_pension(balance=..., retire_age=...), the name the command calls: the
\* personal pension of one balance and one age
cal_personal_pension(balance, retire_age) == get_personal_pension(balance, <<retire_age>>)

\* click.IntRange(min=min, max=max, clamp=True)
IntRange(min, max, value) == IF value < min THEN min ELSE IF value > max THEN max ELSE value

\* |x| * 100 rounded to an integer, ties to even
Hundredths2(x) ==
    LET n == MulSmall(x.m, 100)
    IN  IF x.q >= 0 THEN Shl(n, x.q)
        ELSE LET g == Shr(n, -x.q - 1, FALSE)
                 floor == Trim(DivSmall(g.n, 2, 0).q)
                 guard == g.n # <<>> /\ g.n[1] % 2 = 1
                 odd == floor # <<>> /\ floor[1] % 2 = 1
             IN  IF guard /\ (g.st \/ odd) THEN AddC(floor, <<1>>, 0) ELSE floor

\* str(h) of a positive integer h
RECURSIVE DecimalDigits(_)
DecimalDigits(h) ==
    IF h = <<>> THEN ""
    ELSE LET d == DivSmall(h, 10, 0)
         IN  DecimalDigits(Trim(d.q)) \o ToString(d.r)

\* f'{x:.2f}'
FixedPoint2(x) ==
    LET d == DivSmall(Hundredths2(x), 100, 0)
        whole == Trim(d.q)
    IN  (IF x.neg THEN "-" ELSE "")
        \o (IF whole = <<>> THEN "0" ELSE DecimalDigits(whole))
        \o "." \o ToString(d.r \div 10) \o ToString(d.r % 10)

\* the command social-personal-pension run to its end: options holds the float read from
\* --balance and, if --retire-age was given, its integer
social_personal_pension(options) ==
    LET retire_age == IntRange(40, 70, IF "retire_age" \in DOMAIN options
                                       THEN options.retire_age ELSE 60)
        value == cal_personal_pension(Float(options.balance), retire_age)
    IN  [exc |-> NoError, exit_code |-> 0, output |-> FixedPoint2(value) \o "\n"]

(***************************************************************************)
(* The calls explored: a run makes one call of a function of the module    *)
(* (Init draws the call and its arguments), then to_scalar() on the object *)
(* it returned.                                                            *)
(***************************************************************************)
VARIABLES call, self, ret

vars == <<call, self, ret>>

Series == {valid_series[i] : i \in 1..Len(valid_series)} \cup {"E1"}

SeriesSizes == {valid_series_size[i] : i \in 1..Len(valid_series_size)} \cup {2}

ValidRounds == {"nearest", "floor", "ceil"}

Rounds == ValidRounds \cup {"up"}

Literal(neg, n, k) == [form |-> "literal", neg |-> neg, n |-> n, k |-> k, pow |-> 0]

Literals == {Literal(s, n, k) : s \in BOOLEAN, n \in 10..MaxDigits, k \in {-MaxShift, 1}}

Zeros == {Literal(s, 0, 0) : s \in BOOLEAN}

\* the hundredths of the preferred numbers of one series
Hundredths(series_size) ==
    IF series_size <= 24
    THEN Stride(E24_HUNDREDTHS, 24 \div series_size)
    ELSE Stride(E192_HUNDREDTHS, 192 \div series_size)

\* p * 10**e for the preferred numbers p of a series
PreferredProducts(series) ==
    IF ~_launch_e_series_verify(series) THEN {}
    ELSE LET h == Hundredths(_query_series_size(series))
         IN  {[form |-> "product", neg |-> FALSE, n |-> h[i], k |-> -2, pow |-> e] :
                 i \in 1..Len(h), e \in 0..MaxExponent}

\* the magnitudes of one decade, [1.0, 10.0)
Magnitudes == {Literal(FALSE, n, -2) : n \in {d \in 100..MaxMagnitude : d < 1000}}

Integers3 == {Literal(FALSE, n, 0) : n \in 100..MaxMagnitude}

PowersOfTen == {Literal(FALSE, 1, k) : k \in -MaxPower..MaxPower}

\* the values of the repository's tests: -3.5e3, -3.32e3 and their opposites
TestValues == {Literal(s, 35, 2) : s \in BOOLEAN} \cup {Literal(s, 332, 1) : s \in BOOLEAN}

\* resistances at and beyond the ends of the decades from 1 ohm to 9.1 Mohm, and two
\* resistances halfway between neighbours of E24: 10e6, 9.5e6, 0.95, 86.5, 3450
ResistanceValues ==
    {Literal(FALSE, 1, 7), Literal(FALSE, 95, 5), Literal(FALSE, 95, -2),
     Literal(FALSE, 865, -1), Literal(FALSE, 345, 1)}

\* no call made yet
Pending == [exc |-> "pending"]

Idle == self = NoAttributes /\ ret = Pending

\* values whose decade exponent 10**exponent does not hold in an int64: 1e19, 5e64
LargeValues == {Literal(FALSE, 1, 19), Literal(FALSE, 5, 64)}

\* the call a run makes first, with its arguments
CreateValues(series, round) ==
    IF _launch_e_series_verify(series) /\ round \in ValidRounds
    THEN Literals \cup Zeros \cup TestValues \cup ResistanceValues \cup LargeValues
         \cup PreferredProducts(series)
    ELSE Zeros \cup TestValues

CreateCall ==
    \E series \in Series, round \in Rounds :
        \E v \in CreateValues(series, round) :
            call = [op |-> "create", value |-> v, series |-> series, round |-> round]

ConstructCall ==
    \E series_exponent \in -1..24, series_size \in SeriesSizes,
       exponent \in -MaxExponent..MaxExponent, positive \in BOOLEAN :
        call = [op |-> "ESeriesValue", series_exponent |-> series_exponent,
                series_size |-> series_size, exponent |-> exponent, positive |-> positive]

DecomposeCall ==
    \E v \in Literals \cup Zeros \cup Integers3 \cup PowersOfTen :
        call = [op |-> "cal_significand_and_exponent", value |-> v]

RoundCall ==
    \E v \in Magnitudes, series_size \in SeriesSizes \ {2}, round \in Rounds :
        call = [op |-> "_query_rounded_value_index", value |-> v,
                series_size |-> series_size, round |-> round]

(***************************************************************************)
(* The calls of the LED methods: a run constructs the LED, then calls one  *)
(* method on it; cal_current may follow on the voltages cal_voltage        *)
(* returned.                                                               *)
(***************************************************************************)
LEDS == {TYPICAL_LED, TYPICAL_LED_RED, led, led_infinite_upper_bound}

SetOf(a) == {a[k] : k \in 1..Len(a)}

\* voltages from -3 V to MaxVolts in steps of 0.5 V, and the voltages at and next to the
\* samples of the LED (microvolts)
VoltageGrid == {500000 * k : k \in -6..2 * MaxVolts}

VoltageProbes(l) ==
    SetOf(l.voltages) \cup {amin(l.voltages) - 1, amin(l.voltages) + 1,
                            amax(l.voltages) - 1, amax(l.voltages) + 1}

\* currents from -1 mA to MaxMilliAmps in steps of 1 mA and from 0 to MaxDeciAmps in steps
\* of 0.1 A, 100 A, and the currents at and next to the samples of the LED (microamperes)
CurrentGrid ==
    {1000 * k : k \in -1..MaxMilliAmps} \cup {100000 * k : k \in 0..MaxDeciAmps}
    \cup {100000000}

CurrentProbes(l) ==
    SetOf(l.currents) \cup {amin(l.currents) - 1, amin(l.currents) + 1,
                            amax(l.currents) - 1, amax(l.currents) + 1}

\* the batches of up to MaxBatch elements of few, and the batches of one element of many
Batches(few, many) ==
    {Reals(b) : b \in UNION {[1..n -> few] : n \in 0..MaxBatch}} \cup {<<Real(v)>> : v \in many}

Ends(a) == {amin(a), amax(a), amin(a) + (amax(a) - amin(a)) \div 2}

VoltageBatches(l) ==
    Batches(Ends(l.voltages) \cup {amin(l.voltages) - 1}, VoltageGrid \cup VoltageProbes(l))

CurrentBatches(l) ==
    Batches(Ends(l.currents) \cup {amax(l.currents) + 1}, CurrentGrid \cup CurrentProbes(l))

\* resistances, in tenths of an ohm
ResistanceBatches ==
    {<<Ratio(a, 10)>> : a \in DeciOhms} \cup {<<Ratio(10, 10), Ratio(a, 10)>> : a \in DeciOhms}
    \cup {<<>>}

\* the supply voltages and the currents of the calls of the two solvers
SupplyVoltages(l) ==
    Ends(l.voltages) \cup {amin(l.voltages) + 1, -3000000, 2500000, 5000000, 10000000}

SolverCurrents(l) ==
    CurrentProbes(l) \cup {-1000, 0, 1000, 200000, 1500000, 100000000}

CurveMethods == {"cal_voltage", "cal_current"}

ValidityMethods ==
    {"is_voltage_valid", "is_current_valid", "is_power_voltage_enough",
     "validate_power_voltage"}

RangeMethods ==
    {"cal_divider_resistance_range_if_power_supplied",
     "cal_work_current_range_if_power_supplied"}

SolverMethods == {"cal_divider_resistance", "cal_work_current"}

LEDMethods == CurveMethods \cup ValidityMethods \cup RangeMethods \cup SolverMethods

CurrentMethods == {"cal_voltage", "is_current_valid"}

\* the calls of the methods of one argument
BatchCall(methods) ==
    \E l \in LEDS, op \in methods :
        \E b \in (IF op \in CurrentMethods THEN CurrentBatches(l) ELSE VoltageBatches(l)) :
            call = [op |-> op, led |-> l, batch |-> b]

\* the calls of the two methods of a supply voltage and a batch
SolverCall ==
    \E l \in LEDS, op \in SolverMethods :
        \E v \in SupplyVoltages(l),
           b \in (IF op = "cal_divider_resistance"
                  THEN Batches(Ends(l.currents), SolverCurrents(l))
                  ELSE ResistanceBatches) :
            call = [op |-> op, led |-> l, power_voltage |-> Real(v), batch |-> b]

\* the options of the command: the supply voltages and currents of the solvers but
\* the greatest sample current itself (in float arithmetic 24.605 * 1e-3 is above
\* 24.605e-3), and 2 V, 1 mA and 100 mA of the tests
CommandKinds == {"r", "g", "o"}

CommandVoltages == SupplyVoltages(TYPICAL_LED) \cup SupplyVoltages(TYPICAL_LED_RED) \cup {2000000}

CommandCurrents ==
    ((SolverCurrents(TYPICAL_LED) \cup SolverCurrents(TYPICAL_LED_RED))
     \ {amax(TYPICAL_LED.currents)}) \cup {100000}

CommandCall ==
    \E v \in CommandVoltages, c \in CommandCurrents, k \in CommandKinds :
        call = [op |-> "led_divider_resistance", voltage |-> v, current |-> c, kind |-> k]

Ages == (40 - MaxAgeMargin)..(70 + MaxAgeMargin)

\* one age, no age, and the arrays of the examples
AgeBatches == {<<age>> : age \in Ages} \cup {<<>>, <<60, 65>>, <<60, 65, 70>>}

\* 139000, 101000 and 1.39e3 of the examples, and 29.125 = 233 / 8
BalanceFigures == 0..MaxBalance \cup {101, 139, 29125}

Balances == {Literal(s, n, k) : s \in BOOLEAN, n \in BalanceFigures, k \in {-3, 0, 1, 3}}

\* the balances click.FloatRange(min=0) admits
CommandBalances == {b \in Balances : ~Less(Float(b), Lit(0, 0))}

PensionCall ==
    \/ \E retire_age \in AgeBatches :
           call = [op |-> "get_collection_months", retire_age |-> retire_age]
    \/ \E balance \in Balances, retire_age \in AgeBatches :
           call = [op |-> "get_personal_pension", balance |-> balance,
                   retire_age |-> retire_age]
    \/ \E balance \in CommandBalances :
           \/ call = [op |-> "social_personal_pension", options |-> [balance |-> balance]]
           \/ \E retire_age \in Ages :
                  call = [op |-> "social_personal_pension",
                          options |-> [balance |-> balance, retire_age |-> retire_age]]

Init ==
    /\ \/ CreateCall \/ ConstructCall \/ DecomposeCall \/ RoundCall
       \/ BatchCall(LEDMethods \ SolverMethods) \/ SolverCall \/ CommandCall \/ PensionCall
    /\ Idle

Create ==
    /\ call.op = "create"
    /\ ret = Pending
    /\ \E r \in {create(Float(call.value), call.series, call.round)} :
           /\ self' = r.self
           /\ ret' = [exc |-> r.exc]
    /\ UNCHANGED call

Construct ==
    /\ call.op = "ESeriesValue"
    /\ ret = Pending
    /\ \E r \in {ESeriesValue(call.series_exponent, call.series_size, call.exponent, "int",
                              call.positive)} :
           /\ self' = r.self
           /\ ret' = [exc |-> r.exc]
    /\ UNCHANGED call

\* obj.to_scalar() on the object the first call returned
ToScalar ==
    /\ call.op \in {"create", "ESeriesValue"}
    /\ ret.exc = NoError
    /\ call' = [op |-> "to_scalar", of |-> call]
    /\ ret' = to_scalar(self)
    /\ UNCHANGED self

Decompose ==
    /\ call.op = "cal_significand_and_exponent"
    /\ ret = Pending
    /\ ret' = [exc |-> NoError, val |-> cal_significand_and_exponent(Float(call.value))]
    /\ UNCHANGED <<call, self>>

QueryRoundedValueIndex ==
    /\ call.op = "_query_rounded_value_index"
    /\ ret = Pending
    /\ ret' = [exc |-> NoError,
               val |-> _query_rounded_value_index(
                           Float(call.value),
                           _query_available_preferred_numbers(call.series_size),
                           call.round)]
    /\ UNCHANGED <<call, self>>

\* LED(name, (voltages, currents))
LEDInit ==
    /\ call.op \in LEDMethods
    /\ self = NoAttributes
    /\ self' = LED(call.led.name, call.led.voltages, call.led.currents, None)
    /\ UNCHANGED <<call, ret>>

Constructed(op) == call.op = op /\ self # NoAttributes /\ ret = Pending

CalVoltage ==
    /\ Constructed("cal_voltage")
    /\ ret' = Returns(cal_voltage(self, call.batch))
    /\ UNCHANGED <<call, self>>

\* bisections records, for each element, the result of _cal_current
CalCurrent ==
    /\ Constructed("cal_current")
    /\ "of" \notin DOMAIN call
    /\ ret' = cal_current(self, call.batch)
                @@ [bisections |-> [k \in 1..Len(call.batch) |-> _cal_current(self, call.batch[k])]]
    /\ UNCHANGED <<call, self>>

\* led.cal_current(led.cal_voltage(current))
CalCurrentOfVoltage ==
    /\ call.op = "cal_voltage"
    /\ ret.exc = NoError
    /\ call' = [op |-> "cal_current", led |-> call.led, batch |-> ret.val, of |-> call]
    /\ ret' = cal_current(self, ret.val)
    /\ UNCHANGED self

IsVoltageValid ==
    /\ Constructed("is_voltage_valid")
    /\ ret' = Returns(is_voltage_valid(self, call.batch))
    /\ UNCHANGED <<call, self>>

IsCurrentValid ==
    /\ Constructed("is_current_valid")
    /\ ret' = Returns(is_current_valid(self, call.batch))
    /\ UNCHANGED <<call, self>>

IsPowerVoltageEnough ==
    /\ Constructed("is_power_voltage_enough")
    /\ ret' = Returns(is_power_voltage_enough(self, call.batch))
    /\ UNCHANGED <<call, self>>

ValidatePowerVoltage ==
    /\ Constructed("validate_power_voltage")
    /\ ret' = validate_power_voltage(self, call.batch)
    /\ UNCHANGED <<call, self>>

CalDividerResistanceRange ==
    /\ Constructed("cal_divider_resistance_range_if_power_supplied")
    /\ ret' = cal_divider_resistance_range_if_power_supplied(self, call.batch)
    /\ UNCHANGED <<call, self>>

CalWorkCurrentRange ==
    /\ Constructed("cal_work_current_range_if_power_supplied")
    /\ ret' = cal_work_current_range_if_power_supplied(self, call.batch)
    /\ UNCHANGED <<call, self>>

CalDividerResistance ==
    /\ Constructed("cal_divider_resistance")
    /\ ret' = cal_divider_resistance(self, call.power_voltage, call.batch)
    /\ UNCHANGED <<call, self>>

CalWorkCurrent ==
    /\ Constructed("cal_work_current")
    /\ ret' = cal_work_current(self, call.power_voltage, call.batch)
    /\ UNCHANGED <<call, self>>

\* the command led-divider-resistance, self being its frame: the options are read and
\* the LED is chosen
LedDividerResistance ==
    /\ call.op = "led_divider_resistance"
    /\ self = NoAttributes
    /\ self' = Invoked(call.voltage, call.current, call.kind)
    /\ UNCHANGED <<call, ret>>

InCommand(pc) == call.op = "led_divider_resistance" /\ self # NoAttributes /\ self.pc = pc

IsLedPowerVoltageEnough ==
    /\ InCommand("is_led_power_voltage_enough")
    /\ self' = is_led_power_voltage_enough(self)
    /\ ret' = Exit(self')
    /\ UNCHANGED call

IsLedWorkCurrentInRange ==
    /\ InCommand("is_led_work_current_in_range")
    /\ self' = is_led_work_current_in_range(self)
    /\ ret' = Exit(self')
    /\ UNCHANGED call

PrintDividerResistance ==
    /\ InCommand("cal_divider_resistance")
    /\ self' = led_divider_resistance_end(self)
    /\ ret' = Exit(self')
    /\ UNCHANGED call

NextCommand ==
    \/ LedDividerResistance
    \/ IsLedPowerVoltageEnough
    \/ IsLedWorkCurrentInRange
    \/ PrintDividerResistance

NextCurve == LEDInit \/ CalVoltage \/ CalCurrent \/ CalCurrentOfVoltage

NextValidity ==
    LEDInit \/ IsVoltageValid \/ IsCurrentValid \/ IsPowerVoltageEnough \/ ValidatePowerVoltage

NextDivider ==
    \/ LEDInit
    \/ CalDividerResistanceRange
    \/ CalWorkCurrentRange
    \/ CalDividerResistance
    \/ CalWorkCurrent

GetCollectionMonths ==
    /\ call.op = "get_collection_months"
    /\ ret = Pending
    /\ ret' = [exc |-> NoError, val |-> get_collection_months(call.retire_age)]
    /\ UNCHANGED <<call, self>>

GetPersonalPension ==
    /\ call.op = "get_personal_pension"
    /\ ret = Pending
    /\ ret' = [exc |-> NoError,
               val |-> get_personal_pension(Float(call.balance), call.retire_age)]
    /\ UNCHANGED <<call, self>>

SocialPersonalPension ==
    /\ call.op = "social_personal_pension"
    /\ ret = Pending
    /\ ret' = social_personal_pension(call.options)
    /\ UNCHANGED <<call, self>>

NextPension == GetCollectionMonths \/ GetPersonalPension \/ SocialPersonalPension

Next ==
    \/ Create \/ Construct \/ ToScalar \/ Decompose \/ QueryRoundedValueIndex
    \/ LEDInit \/ CalVoltage \/ CalCurrent \/ CalCurrentOfVoltage
    \/ IsVoltageValid \/ IsCurrentValid \/ IsPowerVoltageEnough \/ ValidatePowerVoltage
    \/ CalDividerResistanceRange \/ CalWorkCurrentRange
    \/ CalDividerResistance \/ CalWorkCurrent
    \/ LedDividerResistance \/ IsLedPowerVoltageEnough \/ IsLedWorkCurrentInRange
    \/ PrintDividerResistance
    \/ GetCollectionMonths \/ GetPersonalPension \/ SocialPersonalPension

Spec == Init /\ [][Next]_vars

\* the class alone: create(), the constructor, to_scalar()
InitESeries == (CreateCall \/ ConstructCall) /\ Idle

NextESeries == Create \/ Construct \/ ToScalar

SpecESeries == InitESeries /\ [][NextESeries]_vars

\* the rounding step alone
InitRound == RoundCall /\ Idle

NextRound == QueryRoundedValueIndex

SpecRound == InitRound /\ [][NextRound]_vars

\* the decomposition alone
InitDecompose == DecomposeCall /\ Idle

NextDecompose == Decompose

SpecDecompose == InitDecompose /\ [][NextDecompose]_vars

\* the transfer curve of the LED and its inverse
InitCurve == BatchCall(CurveMethods) /\ Idle

SpecCurve == InitCurve /\ [][NextCurve]_vars

\* the validity predicates and the supply-voltage gate
InitValidity == BatchCall(ValidityMethods) /\ Idle

SpecValidity == InitValidity /\ [][NextValidity]_vars

\* the divider calculations
InitDivider == (BatchCall(RangeMethods) \/ SolverCall) /\ Idle

SpecDivider == InitDivider /\ [][NextDivider]_vars

\* the first call has returned (or raised)
\* one run of the command led-divider-resistance
InitCommand == CommandCall /\ Idle

InitPension == PensionCall /\ Idle

\* one call of a function of social_pension.py, or one run of social-personal-pension
SpecPension == InitPension /\ [][NextPension]_vars

SpecCommand == InitCommand /\ [][NextCommand]_vars

Returned(op) == call.op = op /\ ret # Pending

(***************************************************************************)
(* Helpers of the properties                                               *)
(***************************************************************************)
Minus(v) == [v EXCEPT !.neg = ~@]

\* the float nearest to x * 10**e, rounded once
Scale10(x, e) ==
    IF IsZero(x) THEN x
    ELSE IF e >= 0 THEN Round(x.neg, MulPow(x.m, 10, e), x.q, FALSE)
    ELSE LET s == 60 + 4 * (-e)
             d == DivPow10(Shl(x.m, s), -e, FALSE)
         IN  Round(x.neg, d.n, x.q - s, d.st)

AbsInt(i) == IF i < 0 THEN -i ELSE i

(***************************************************************************)
(* Properties                                                              *)
(***************************************************************************)

\* C1 (as claimed): create(p * 10**e, series, mode).to_scalar() == p * 10**e for
\* every preferred number p of the series, every decade exponent e and each of
\* the three modes.
C1_Idempotence ==
    (/\ call.op = "to_scalar"
     /\ call.of.op = "create"
     /\ call.of.value.form = "product"
     /\ call.of.round \in ValidRounds)
    => (ret.exc = NoError /\ ret.val = Float(call.of.value))

\* C2 (as claimed): for every magnitude m of [1.0, 10.0) the rounding step brackets m,
\* table[floor_index] <= m <= table[ceil_index]: floor mode never returns an entry
\* above m and ceil mode never one below m.
C2_Bracketing ==
    Returned("_query_rounded_value_index")
    => LET table == _query_available_preferred_numbers(call.series_size)
           m == Float(call.value)
           l == RoundingLocals(m, table)
       IN  /\ LessEq(l.floor_value, m) /\ LessEq(m, l.ceil_value)
           /\ call.round = "floor" => LessEq(Item(table, ret.val), m)
           /\ call.round = "ceil" => LessEq(m, Item(table, ret.val))

\* C3 (as claimed): create() raises ValueError whenever the mode is none of
\* 'nearest', 'floor', 'ceil', and produces no object.
C3_RoundValidation ==
    (Returned("create") /\ call.round \notin ValidRounds)
    => (ret.exc = ValueError /\ self = NoAttributes)

\* C4 (as claimed): every ESeriesValue that exists has 0 <= series_exponent < series_size,
\* and a direct construction with a series_exponent outside that range is rejected.
C4_IndexInvariant ==
    /\ (call.op \in {"create", "ESeriesValue"} /\ ret.exc = NoError)
       => (0 <= self.series_exponent /\ self.series_exponent < self.series_size)
    /\ (/\ Returned("ESeriesValue")
        /\ ~(0 <= call.series_exponent /\ call.series_exponent < call.series_size))
       => ret.exc # NoError

\* C5 (as claimed): create(-x, s, m).to_scalar() == -create(x, s, m).to_scalar() for
\* every x, zero included, every series and every mode.
C5_SignSymmetry ==
    (call.op = "to_scalar" /\ call.of.op = "create" /\ call.of.round \in ValidRounds)
    => LET other == create(Float(Minus(call.of.value)), call.of.series, call.of.round)
           scalar == to_scalar(other.self)
       IN  /\ ret.exc = NoError
           /\ other.exc = NoError
           /\ scalar.exc = NoError
           /\ scalar.val = Neg(ret.val)

\* create(-3500, 'E24') of test_ESeriesValue_create
C6_Example ==
    LET o == create(Float(Literal(TRUE, 3500, 0)), "E24", "nearest")
    IN  /\ o.exc = NoError
        /\ o.self.series_exponent = 13
        /\ o.self.exponent = 3
        /\ o.self.preferred_number = Lit(36, -1)
        /\ ~o.self.is_positive

\* C6 (as claimed): in mode 'nearest' the rounding step returns floor_index exactly
\* when 2*m <= floor_value + ceil_value and ceil_index otherwise, so that a magnitude
\* equidistant from its two neighbours goes to the lower one and the entry returned is
\* never farther from m than the other bracketing entry (m and the entries taken as
\* the decimal numbers they are written as); create(-3500, 'E24') has index 13,
\* exponent 3, preferred number 3.6 and a negative sign.
C6_NearestRule ==
    /\ (Returned("_query_rounded_value_index") /\ call.round = "nearest")
       => LET h == Hundredths(call.series_size)
              l == RoundingLocals(Float(call.value),
                                  _query_available_preferred_numbers(call.series_size))
              f == Item(h, l.floor_index)
              c == Item(h, l.ceil_index)
              other == IF ret.val = l.floor_index THEN c ELSE f
          IN  /\ ret.val = (IF 2 * call.value.n <= f + c THEN l.floor_index ELSE l.ceil_index)
              /\ AbsInt(Item(h, ret.val) - call.value.n) <= AbsInt(other - call.value.n)
    /\ C6_Example

\* C7: for every negative value v and every mode, create(v, series, mode) has the
\* series_exponent and the exponent of create(|v|, series, mode) and is_positive False,
\* floor and ceil being applied to |v|: create(-3.32e3, 'E24', 'ceil') has index 13 (3.6)
\* and create(-3.5e3, 'E24', 'floor') index 12 (3.3).
C7_RoundByMagnitude ==
    /\ (call.op = "create" /\ call.value.neg /\ call.value.n # 0 /\ ret.exc = NoError)
       => LET p == create(Float(Minus(call.value)), call.series, call.round)
          IN  /\ p.exc = NoError
              /\ p.self.is_positive
              /\ ~self.is_positive
              /\ self.series_exponent = p.self.series_exponent
              /\ self.exponent = p.self.exponent
    /\ (Returned("create") /\ call.series = "E24" /\ call.round = "ceil"
        /\ call.value = Literal(TRUE, 332, 1))
       => (/\ ret.exc = NoError
           /\ self.series_exponent = 13 /\ self.preferred_number = Lit(36, -1)
           /\ self.exponent = 3 /\ ~self.is_positive)
    /\ (Returned("create") /\ call.series = "E24" /\ call.round = "floor"
        /\ call.value = Literal(TRUE, 35, 2))
       => (/\ ret.exc = NoError
           /\ self.series_exponent = 12 /\ self.preferred_number = Lit(33, -1)
           /\ self.exponent = 3 /\ ~self.is_positive)

\* a negative value was rounded down by magnitude: create(-3.5e3, 'E24', 'floor')
C7_Witness ==
    /\ call.op = "create"
    /\ call.value = Literal(TRUE, 35, 2)
    /\ call.series = "E24"
    /\ call.round = "floor"
    /\ ret.exc = NoError
    /\ self.series_exponent = 12
    /\ self.exponent = 3
    /\ ~self.is_positive

\* C8 (as claimed): cal_significand_and_exponent returns (s, e) with 1 <= |s| < 10,
\* s of the sign of value and value == s * 10**e (in float arithmetic, or s the float
\* nearest to value / 10**e); 10**k yields (1, k); 0 yields (0, 0).
C8_Decomposition ==
    Returned("cal_significand_and_exponent")
    => LET x == Float(call.value)
           s == ret.val.significand
           e == ret.val.exponent
       IN  IF IsZero(x) THEN IsZero(s) /\ e = 0
           ELSE /\ LessEq(One, Abs(s)) /\ MagLess(Abs(s), Ten)
                /\ s.neg = x.neg
                /\ (Mul(s, Pow10(e)) = x \/ s = Scale10(x, -e))
                /\ call.value.n = 1 => (s = One /\ e = call.value.k)

\* C9: for every valid (series_exponent, series_size, exponent, positive), to_scalar()
\* returns sign * T[series_exponent] * 10**exponent with T the strided table of the
\* series, the table create() searches; ESeriesValue(12, 24, 3, False) gives -3.3e3.
C9_Reassembly ==
    /\ (/\ call.op = "to_scalar"
        /\ call.of.op = "ESeriesValue"
        /\ 0 <= call.of.series_exponent
        /\ call.of.series_exponent < call.of.series_size)
       => LET T == _query_available_preferred_numbers(call.of.series_size)
          IN  /\ Len(T) = call.of.series_size
              /\ self.preferred_number = T[call.of.series_exponent + 1]
              /\ ret.exc = NoError
              /\ ret.val = Signed(call.of.positive,
                                  Mul(T[call.of.series_exponent + 1], Pow10(call.of.exponent)))
    /\ (/\ call.op = "to_scalar"
        /\ call.of = [op |-> "ESeriesValue", series_exponent |-> 12, series_size |-> 24,
                      exponent |-> 3, positive |-> FALSE])
       => (ret.exc = NoError /\ ret.val = Neg(Lit(33, 2)))

\* to_scalar() was called on ESeriesValue(12, 24, 3, False) and returned -3.3e3
C9_Witness ==
    /\ call.op = "to_scalar"
    /\ call.of.op = "ESeriesValue"
    /\ call.of.series_exponent = 12
    /\ call.of.series_size = 24
    /\ call.of.exponent = 3
    /\ ~call.of.positive
    /\ ret.exc = NoError
    /\ ret.val = Neg(Lit(33, 2))

\* C10: create() raises ValueError for a series tag outside the seven valid ones and
\* the constructor raises ValueError for a series_size outside {3, 6, 12, 24, 48, 96, 192},
\* before any attribute is set; no object exists for another series.
C10_SeriesValidation ==
    /\ (Returned("create") /\ ~(\E i \in 1..7 : valid_series[i] = call.series))
       => (ret.exc = ValueError /\ self = NoAttributes)
    /\ (Returned("ESeriesValue") /\ call.series_size \notin {3, 6, 12, 24, 48, 96, 192})
       => (ret.exc = ValueError /\ self = NoAttributes)
    /\ (call.op \in {"create", "ESeriesValue"} /\ ret.exc = NoError)
       => (/\ self.series_size \in {3, 6, 12, 24, 48, 96, 192}
           /\ self.series \in {"E3", "E6", "E12", "E24", "E48", "E96", "E192"})

\* the constructor was called with series_size 2 and raised before setting anything
C10_Witness ==
    /\ call.op = "ESeriesValue"
    /\ call.series_size = 2
    /\ ret.exc = ValueError
    /\ self = NoAttributes

\* the index the rounding step returns for the magnitude n hundredths in mode 'nearest'
NearestIndex(n, series_size) ==
    _query_rounded_value_index(Float(Literal(FALSE, n, -2)),
                               _query_available_preferred_numbers(series_size), "nearest")

\* C11: for every series, in mode 'nearest' the index the rounding step returns does not
\* decrease when the magnitude grows: index(m1) <= index(m2) for all m1 <= m2 of
\* [1.0, 10.0). Checked between every magnitude and the next one of the grid, which
\* gives every pair of the grid by transitivity.
C11_Ordering ==
    (Returned("_query_rounded_value_index") /\ call.round = "nearest"
     /\ call.value.n + 1 < 1000)
    => ret.val <= NearestIndex(call.value.n + 1, call.series_size)

\* a magnitude at which the index steps up
C11_Witness ==
    /\ Returned("_query_rounded_value_index")
    /\ call.round = "nearest"
    /\ call.series_size = 24
    /\ call.value.n + 1 < 1000
    /\ ret.val = 12
    /\ NearestIndex(call.value.n + 1, call.series_size) = 13

(***************************************************************************)
(* Properties of the LED                                                   *)
(***************************************************************************)
\* the limits of the LED of the call, from its samples
v_min == Real(amin(call.led.voltages))

v_max == Real(amax(call.led.voltages))

i_min == Real(amin(call.led.currents))

i_max == Real(amax(call.led.currents))

\* C12: cal_voltage raises nothing and returns, for every element of the batch of
\* currents, NaN when the current is outside [i_min, i_max] and the interpolated voltage
\* when it is inside (the voltage of the sample at a sample current, a voltage between
\* v_min and v_max elsewhere), the same as for a batch of that element alone; on the LED
\* of the tests 0 and 3 give NaN and 1.5 gives 2.5.
C12_SoftFailure ==
    Returned("cal_voltage")
    => /\ ret.exc = NoError
       /\ Len(ret.val) = Len(call.batch)
       /\ \A k \in 1..Len(call.batch) :
            /\ (lt(call.batch[k], i_min) \/ gt(call.batch[k], i_max)) => IsNaN(ret.val[k])
            /\ (ge(call.batch[k], i_min) /\ le(call.batch[k], i_max))
               => /\ IsFinite(ret.val[k])
                  /\ ge(ret.val[k], v_min) /\ le(ret.val[k], v_max)
                  /\ \A j \in 1..Len(call.led.currents) :
                       eq(call.batch[k], Real(call.led.currents[j]))
                       => eq(ret.val[k], Real(call.led.voltages[j]))
            /\ ret.val[k] = cal_voltage(self, <<call.batch[k]>>)[1]
            /\ (call.led = led /\ call.batch[k] \in {Real(0), Real(3000000)})
               => IsNaN(ret.val[k])
            /\ (call.led = led /\ call.batch[k] = Real(1500000))
               => eq(ret.val[k], Real(2500000))

\* a batch of the LED of the tests with one current inside and one outside
C12_Witness ==
    /\ Returned("cal_voltage")
    /\ call.led = led
    /\ call.batch = <<Real(1500000), Real(2000001)>>
    /\ ret.val = <<Real(2500000), nan>>

\* the bisection of element k was started
Searched(b) == "iterations" \in DOMAIN b

\* C13: LED.cal_current soft failure: for an input of any shape the result has
\* the same shape, and an element is NaN, without a bisection being started,
\* exactly when its voltage is not strictly inside (v_min, v_max), both bounds
\* rejected; every other element is the current the bisection over
\* [i_min, i_max] found.
C13_SoftFailure ==
    (Returned("cal_current") /\ "of" \notin DOMAIN call)
    => /\ ret.exc = NoError
       /\ Len(ret.val) = Len(call.batch)
       /\ \A k \in 1..Len(call.batch) :
            IF lt(v_min, call.batch[k]) /\ lt(call.batch[k], v_max)
            THEN /\ Searched(ret.bisections[k])
                 /\ ret.bisections[k].exc = NoError
                 /\ ret.val[k] = ret.bisections[k].val
                 /\ IsFinite(ret.val[k])
                 /\ ge(ret.val[k], i_min) /\ le(ret.val[k], i_max)
            ELSE /\ ~Searched(ret.bisections[k])
                 /\ IsNaN(ret.val[k])

\* x lies strictly between two of the samples a
BetweenSamples(x, a) ==
    /\ \E j \in 1..Len(a) : lt(Real(a[j]), x)
    /\ \E j \in 1..Len(a) : lt(x, Real(a[j]))

\* C14: strict validity predicates: is_voltage_valid(x) is True iff
\* v_min < x < v_max and is_current_valid(x) is True iff i_min < x < i_max,
\* element by element, the limits being the least and the greatest of the
\* calibration samples; the limits themselves are invalid and the result has
\* the shape of the input.
C14_StrictValidity ==
    /\ Returned("is_voltage_valid")
       => /\ ret.exc = NoError
          /\ Len(ret.val) = Len(call.batch)
          /\ \A k \in 1..Len(call.batch) :
               /\ ret.val[k] <=> (lt(v_min, call.batch[k]) /\ lt(call.batch[k], v_max))
               /\ ret.val[k] <=> BetweenSamples(call.batch[k], call.led.voltages)
               /\ (eq(call.batch[k], v_min) \/ eq(call.batch[k], v_max)) => ~ret.val[k]
    /\ Returned("is_current_valid")
       => /\ ret.exc = NoError
          /\ Len(ret.val) = Len(call.batch)
          /\ \A k \in 1..Len(call.batch) :
               /\ ret.val[k] <=> (lt(i_min, call.batch[k]) /\ lt(call.batch[k], i_max))
               /\ ret.val[k] <=> BetweenSamples(call.batch[k], call.led.currents)
               /\ (eq(call.batch[k], i_min) \/ eq(call.batch[k], i_max)) => ~ret.val[k]

\* the LED of the tests: the least voltage is invalid, a voltage inside is valid
C14_Witness ==
    /\ Returned("is_voltage_valid")
    /\ call.led = led
    /\ call.batch = <<Real(0), Real(2500000)>>
    /\ ret.val = <<FALSE, TRUE>>

C16_DividerRange ==
    Returned("cal_divider_resistance_range_if_power_supplied")
    => IF \E k \in 1..Len(call.batch) : le(call.batch[k], v_min)
       THEN ret.exc = ValueError
       ELSE /\ ret.exc = NoError
            /\ Len(ret.val[1]) = Len(call.batch)
            /\ Len(ret.val[2]) = Len(call.batch)
            /\ \A k \in 1..Len(call.batch) :
                 /\ ge(ret.val[1][k], Real(0))
                 /\ le(ret.val[1][k], ret.val[2][k])
                 /\ lt(call.batch[k], v_max) => eq(ret.val[1][k], Real(0))
                 /\ ge(call.batch[k], v_max)
                    => eq(Times(ret.val[1][k], i_max), Difference(call.batch[k], v_max))
                 /\ IF eq(i_min, Real(0)) THEN IsInf(ret.val[2][k])
                    ELSE eq(Times(ret.val[2][k], i_min), Difference(call.batch[k], v_min))
                 /\ (call.led = led /\ call.batch[k] = Real(10000000))
                    => eq(ret.val[1][k], Ratio(5, 2)) /\ eq(ret.val[2][k], Real(10))
                 /\ (call.led = led_infinite_upper_bound /\ call.batch[k] = Real(10000000))
                    => eq(ret.val[1][k], Real(5)) /\ IsInf(ret.val[2][k])

\* the LED of the tests at 2.5 V and 5 V: from 0 to 2.5 ohms and from 0 to 5 ohms
C16_Witness ==
    /\ Returned("cal_divider_resistance_range_if_power_supplied")
    /\ call.led = led
    /\ call.batch = <<Real(2500000), Real(5000000)>>
    /\ ret.exc = NoError
    /\ eq(ret.val[1][1], Real(0)) /\ eq(ret.val[1][2], Real(0))
    /\ eq(ret.val[2][1], Ratio(5, 2)) /\ eq(ret.val[2][2], Real(5))

\* C17: working-current range: for every supply voltage V > v_min the method
\* returns (lo, hi) with lo = i_min, hi = i_max when V >= v_max and
\* hi = cal_current(V) otherwise, hence i_min <= lo <= hi <= i_max; for
\* V <= v_min it raises ValueError.
C17_WorkCurrentRange ==
    Returned("cal_work_current_range_if_power_supplied")
    => IF \E k \in 1..Len(call.batch) : le(call.batch[k], v_min)
       THEN ret.exc = ValueError
       ELSE /\ ret.exc = NoError
            /\ Len(ret.val[1]) = Len(call.batch)
            /\ Len(ret.val[2]) = Len(call.batch)
            /\ \A k \in 1..Len(call.batch) :
                 /\ eq(ret.val[1][k], i_min)
                 /\ ge(call.batch[k], v_max) => eq(ret.val[2][k], i_max)
                 /\ lt(call.batch[k], v_max)
                    => ret.val[2][k] = cal_current(self, <<call.batch[k]>>).val[1]
                 /\ le(i_min, ret.val[1][k])
                 /\ le(ret.val[1][k], ret.val[2][k])
                 /\ le(ret.val[2][k], i_max)
                 /\ (call.led = led /\ call.batch[k] = Real(2500000))
                    => eq(ret.val[2][k], Real(1500000))

\* the LED of the tests at 2.5 V and 5 V: from 1 A to 1.5 A and from 1 A to 2 A
C17_Witness ==
    /\ Returned("cal_work_current_range_if_power_supplied")
    /\ call.led = led
    /\ call.batch = <<Real(2500000), Real(5000000)>>
    /\ ret.exc = NoError
    /\ eq(ret.val[1][1], Real(1000000)) /\ eq(ret.val[1][2], Real(1000000))
    /\ eq(ret.val[2][1], Real(1500000)) /\ eq(ret.val[2][2], Real(2000000))

\* the working-current range of the supply voltage of the call
WorkRange == ret.work_current_range

\* every current of the batch lies in the working-current range, bounds included
InWorkRange ==
    /\ gt(call.power_voltage, v_min)
    /\ \A k \in 1..Len(call.batch) :
         ge(call.batch[k], WorkRange.val[1][1]) /\ le(call.batch[k], WorkRange.val[2][1])

\* one resistance for each current of the batch, each (V - cal_voltage(i)) / i
DividerValues ==
    /\ ret.exc = NoError
    /\ Len(ret.val) = Len(call.batch)
    /\ \A k \in 1..Len(call.batch) :
         /\ IsFinite(ret.val[k])
         /\ eq(Times(ret.val[k], call.batch[k]),
               Difference(call.power_voltage, cal_voltage(self, <<call.batch[k]>>)[1]))
         /\ (call.led = led /\ call.power_voltage = Real(10000000)
             /\ call.batch[k] = Real(1500000)) => eq(ret.val[k], Real(5))
         /\ (call.led = TYPICAL_LED /\ call.power_voltage = Real(5000000)
             /\ call.batch[k] = Real(1000))
            => ge(ret.val[k], Ratio(4437, 2)) /\ lt(ret.val[k], Ratio(4439, 2))

\* C18 as claimed: for every supply voltage V > v_min and every current i inside
\* the working-current range of V, both bounds accepted, cal_divider_resistance
\* returns (V - cal_voltage(i)) / i for each current of the batch.
C18_Original ==
    (Returned("cal_divider_resistance") /\ InWorkRange) => DividerValues

\* C18, amended: the same for every current inside the working-current range
\* of V that is above 0; a current of 0, although it is the lower bound of the
\* range of an LED with i_min == 0, is refused.
C18_DividerResistance ==
    (Returned("cal_divider_resistance") /\ InWorkRange
     /\ \A k \in 1..Len(call.batch) : gt(call.batch[k], Real(0)))
    => DividerValues

\* the LED of the tests at 10 V, the two bounds of the range: 10 and 2.5 ohms
C18_Witness ==
    /\ Returned("cal_divider_resistance")
    /\ call.led = led
    /\ call.power_voltage = Real(10000000)
    /\ call.batch = <<Real(1000000), Real(2000000)>>
    /\ ret.exc = NoError
    /\ eq(ret.val[1], Real(10)) /\ eq(ret.val[2], Ratio(5, 2))

\* the current is outside the working-current range of the supply voltage of the
\* call: below i_min, above i_max, above cal_current(V) when V < v_max, or not above 0
OutsideWorkRange(current) ==
    \/ lt(current, i_min)
    \/ gt(current, i_max)
    \/ lt(call.power_voltage, v_max) /\ gt(current, ret.work_current_range.val[2][1])
    \/ le(current, Real(0))

\* the resistance is outside the divider-resistance range of the supply voltage of the call
OutsideDividerRange(resistance) ==
    \/ lt(resistance, ret.divider_resistance_range.val[1][1])
    \/ gt(resistance, ret.divider_resistance_range.val[2][1])

\* C19: range gating of the two solvers: cal_divider_resistance(V, i) raises
\* ValueError whenever a current is outside the working-current range computed
\* for V (below i_min, above i_max, above cal_current(V) when V < v_max, and any
\* i <= 0), and cal_work_current(V, r) raises ValueError whenever a resistance is
\* outside the divider-resistance range computed for V; no number is returned.
C19_RangeGating ==
    /\ (Returned("cal_divider_resistance") /\ gt(call.power_voltage, v_min))
       => /\ ret.work_current_range.exc = NoError
          /\ (\E k \in 1..Len(call.batch) : OutsideWorkRange(call.batch[k]))
             => ret.exc = ValueError /\ "val" \notin DOMAIN ret
          /\ (call.led = led /\ call.power_voltage = Real(2500000)
              /\ call.batch = <<Real(2000000)>>) => ret.exc = ValueError
          /\ (call.led = led /\ call.power_voltage = Real(10000000)
              /\ call.batch \in {<<Real(200000)>>, <<Real(100000000)>>})
             => ret.exc = ValueError
    /\ (Returned("cal_work_current") /\ gt(call.power_voltage, v_min))
       => /\ ret.divider_resistance_range.exc = NoError
          /\ (\E k \in 1..Len(call.batch) : OutsideDividerRange(call.batch[k]))
             => ret.exc = ValueError /\ "val" \notin DOMAIN ret
          /\ (call.led = led /\ call.power_voltage = Real(10000000)
              /\ call.batch \in {<<Real(1)>>, <<Real(100)>>}) => ret.exc = ValueError

\* the LED of the tests at 2.5 V: 2 A is above cal_current(2.5) = 1.5 A and is refused
C19_Witness ==
    /\ Returned("cal_divider_resistance")
    /\ call.led = led
    /\ call.power_voltage = Real(2500000)
    /\ call.batch = <<Real(2000000)>>
    /\ eq(ret.work_current_range.val[2][1], Real(1500000))
    /\ ret.exc = ValueError

\* a resistance below the range of the LED of the tests at 10 V, 2.5 to 10 ohms, is refused
C19_WitnessResistance ==
    /\ Returned("cal_work_current")
    /\ call.led = led
    /\ call.power_voltage = Real(10000000)
    /\ call.batch = <<Real(1)>>
    /\ ret.exc = ValueError

\* the tolerance of the bisection at x: 2e-12 A + 2^-50 * |x|, in microamperes
Tolerance(x) ==
    Plus(Number(FALSE, <<2>>, 0, Dec(<<1, 0>>)), Number(FALSE, x.n, x.s + 50, x.d))

LookedUp ==
    /\ call.op = "to_scalar"
    /\ call.of.op = "create"
    /\ call.of.series = "E24"
    /\ call.of.round = "nearest"
    /\ ~call.of.value.neg

\* C21 (as claimed): the lookup of the nearest standard resistance clamps at both
\* ends of the seven decades from 1 ohm to 9.1 Mohm: every value below 1.0
\* returns 1.0 (0.2 -> 1.0), every value above 9.1e6 returns 9.1e6
\* (10e6 -> 9.1e6), and a value equidistant from its two neighbours returns the
\* lower one (86.5 -> 82, 3450 -> 3300).
C21_Boundaries ==
    LookedUp
    => /\ ret.exc = NoError
       /\ Less(Float(call.of.value), One) => ret.val = One
       /\ Less(Lit(91, 5), Float(call.of.value)) => ret.val = Lit(91, 5)
       /\ call.of.value = Literal(FALSE, 865, -1) => ret.val = Lit(82, 0)
       /\ call.of.value = Literal(FALSE, 345, 1) => ret.val = Lit(33, 2)

(***************************************************************************)
(* Properties of the command led-divider-resistance                        *)
(***************************************************************************)
\* the least sample voltage of the preset the option --kind selects
LeastVoltage ==
    Real(amin(IF call.kind = "r" THEN TYPICAL_LED_RED.voltages ELSE TYPICAL_LED.voltages))

\* the current given is outside the working-current range of the voltage given
CurrentOutOfRange ==
    \/ lt(self.current, cal_work_current_range_if_power_supplied(self.led, <<self.voltage>>).val[1][1])
    \/ gt(self.current, cal_work_current_range_if_power_supplied(self.led, <<self.voltage>>).val[2][1])

\* C22: check ordering in the command led-divider-resistance: the supply-voltage
\* check always runs first and the working-current check second; a voltage not
\* above v_min prints only the line of the least voltage (v_min of the preset
\* selected, 2.7524 V for the generic one) and stops; a voltage that passes with a
\* current out of range prints only the two lines of the current range and stops;
\* the resistance is computed and printed only after both checks passed; each of
\* the three paths ends with exit code 0 and no exception.
C22_CheckOrdering ==
    (call.op = "led_divider_resistance" /\ self # NoAttributes)
    => /\ self.checks \in {<<>>, <<"power voltage">>, <<"power voltage", "work current">>}
       /\ self.pc = "is_led_work_current_in_range" => self.checks = <<"power voltage">>
       /\ self.pc = "cal_divider_resistance"
          => self.checks = <<"power voltage", "work current">> /\ self.output = <<>>
       /\ self.pc \notin {"return", "raise"} => ret = Pending
       /\ self.pc \in {"return", "raise"}
          => /\ ret.exc = NoError
             /\ ret.exit_code = 0
             /\ IF le(self.voltage, LeastVoltage)
                THEN /\ self.checks = <<"power voltage">>
                     /\ Len(self.output) = 1
                     /\ self.output[1].line = "least voltage"
                     /\ eq(self.output[1].V, LeastVoltage)
                     /\ call.kind # "r" => eq(self.output[1].V, Real(2752400))
                ELSE IF CurrentOutOfRange
                THEN /\ self.checks = <<"power voltage", "work current">>
                     /\ self.output = CurrentRangeLines
                ELSE /\ self.checks = <<"power voltage", "work current">>
                     /\ Len(self.output) = 1
                     /\ self.output[1].line = "resistance"

(***************************************************************************)
(* Properties of the tables of preferred numbers                           *)
(***************************************************************************)
StrictlyIncreasing(T) == \A i \in 1..(Len(T) - 1) : Less(T[i], T[i + 1])

\* a table starts with 1.0, increases strictly and stays inside [1.0, 10.0)
WellFormedTable(T) ==
    /\ T[1] = One
    /\ StrictlyIncreasing(T)
    /\ \A i \in 1..Len(T) : LessEq(One, T[i]) /\ Less(T[i], Ten)

BaseTablesWellFormed ==
    /\ Len(PREFERRED_NUMBER_E24) = 24
    /\ Len(PREFERRED_NUMBER_E192) = 192
    /\ WellFormedTable(PREFERRED_NUMBER_E24)
    /\ WellFormedTable(PREFERRED_NUMBER_E192)

\* C23: the 24-entry and the 192-entry base tables are strictly increasing, start
\* with 1.0 at index 0 and have every entry in [1.0, 10.0); for each of the seven
\* series the strided subsample (stride 24/size or 192/size) has exactly size
\* entries, is strictly increasing and starts with 1.0.
C23_Tables ==
    Returned("_query_rounded_value_index")
    => /\ BaseTablesWellFormed
       /\ call.series_size \in {3, 6, 12, 24, 48, 96, 192}
       /\ Len(_query_available_preferred_numbers(call.series_size)) = call.series_size
       /\ WellFormedTable(_query_available_preferred_numbers(call.series_size))
       /\ \A i \in 1..call.series_size :
            _query_available_preferred_numbers(call.series_size)[i]
            = (IF call.series_size <= 24
               THEN PREFERRED_NUMBER_E24[(i - 1) * (24 \div call.series_size) + 1]
               ELSE PREFERRED_NUMBER_E192[(i - 1) * (192 \div call.series_size) + 1])

\* the rounding step ran on the table of E3, [1.0, 2.2, 4.7]
C23_Witness ==
    /\ Returned("_query_rounded_value_index")
    /\ call.series_size = 3
    /\ _query_available_preferred_numbers(call.series_size) = <<One, Lit(22, -1), Lit(47, -1)>>

(***************************************************************************)
(* Termination of the inversion                                            *)
(***************************************************************************)
\* 2^k
PowerOfTwo(k) == Number(FALSE, Shl(<<1>>, k), 0, <<1>>)

\* the outcome of the search for one voltage inside (v_min, v_max): the end points had
\* opposite signs, nothing was raised, the halvings stayed within maxiter and within
\* what the width of [i_min, i_max] and the absolute tolerance of 2e-12 A allow (the
\* halving before the last left an interval not below the tolerance), and the
\* current lies in [i_min, i_max]
SearchEnded(voltage, b) ==
    /\ lt(cal_voltage(self, <<i_min>>)[1], voltage)
    /\ lt(voltage, cal_voltage(self, <<i_max>>)[1])
    /\ Searched(b)
    /\ b.exc = NoError
    /\ b.iterations >= 1
    /\ b.iterations <= maxiter
    /\ le(Times(PowerOfTwo(b.iterations - 1), Number(FALSE, <<2>>, 0, Dec(<<1, 0>>))),
          Difference(i_max, i_min))
    /\ IsFinite(b.val)
    /\ ge(b.val, i_min)
    /\ le(b.val, i_max)

\* C24: termination of the inversion: for an LED with a finite bracket
\* [i_min, i_max] and a voltage increasing with the current, every call of
\* cal_current on a finite voltage terminates: it returns NaN at once when the
\* voltage is not strictly inside (v_min, v_max), and otherwise the bisection
\* starts from end points of opposite sign, finishes within a bounded number of
\* halvings, raises nothing and returns a current in [i_min, i_max].
C24_Termination ==
    (Returned("cal_current") /\ "of" \notin DOMAIN call)
    => /\ call.batch # <<>> => ret.exc = NoError
       /\ \A k \in 1..Len(call.batch) :
            IF lt(v_min, call.batch[k]) /\ lt(call.batch[k], v_max)
            THEN SearchEnded(call.batch[k], ret.bisections[k])
            ELSE ~Searched(ret.bisections[k]) /\ IsNaN(ret.bisections[k].val)

\* TYPICAL_LED at 3.0645 V, halfway between v_min and v_max: found after 34 halvings
C24_Witness ==
    /\ Returned("cal_current")
    /\ "of" \notin DOMAIN call
    /\ call.led = TYPICAL_LED
    /\ call.batch = <<Real(3064500)>>
    /\ ret.exc = NoError
    /\ ret.bisections[1].iterations = 34

(***************************************************************************)
(* Properties of create(0, series, round)                                  *)
(***************************************************************************)
\* create(value, series, round) returned an object, value 0 or -0.0
CreatedOfZero == call.op = "create" /\ ret.exc = NoError /\ call.value \in Zeros

\* C25: zero input: for every series and every mode, create(0, series, mode)
\* decomposes 0 to (0, 0), takes series index 0 and a positive sign, and so
\* yields series_exponent 0, exponent 0, is_positive True and preferred_number
\* 1.0, so that its to_scalar() is 1.0 and not 0; create never returns an
\* object whose to_scalar() is 0.
C25_ZeroInput ==
    /\ CreatedOfZero
       => /\ cal_significand_and_exponent(Float(call.value)).significand = Lit(0, 0)
          /\ cal_significand_and_exponent(Float(call.value)).exponent = 0
          /\ self.series_exponent = 0
          /\ self.exponent = 0
          /\ self.is_positive
          /\ self.preferred_number = One
          /\ to_scalar(self) = [exc |-> NoError, val |-> One]
    /\ (call.op = "to_scalar" /\ call.of.op = "create" /\ call.of.value \in Zeros)
       => ret = [exc |-> NoError, val |-> One]
    /\ (call.op = "to_scalar" /\ call.of.op = "create" /\ ret.exc = NoError)
       => ~IsZero(ret.val)

(***************************************************************************)
(* Properties of the personal pension                                      *)
(***************************************************************************)
\* the table entry of the age clamped to [40, 70]
Months(age) == COLLECTION_MONTHS[IF age < 40 THEN 40 ELSE IF age > 70 THEN 70 ELSE age]

\* the table does not increase with the age and holds no zero
MonthsNonIncreasing ==
    /\ \A age \in Ages : Months(age) > 0
    /\ \A a, b \in Ages : a <= b => Months(a) >= Months(b)
    /\ \A age \in Ages : (age < 40 => Months(age) = 233) /\ (age > 70 => Months(age) = 56)

==========================================================================
